---- MODULE Spec2Model ----
(***************************************************************************)
(* A model of the ai-buddy study assistant: the PDF store (records, files  *)
(* and per-document FAISS indexes), the saved-quiz collection, the chat    *)
(* weak-context gate and quiz-parameter coercion.                          *)
(***************************************************************************)
EXTENDS Integers, Sequences, FiniteSets, TLC

\* ------------------------------------------------------------------ bounds
MaxPdfs == 2
MaxQuizzes == 2
MaxUiQuizzes == 1
MaxChunks == 2
MaxVectorPdfs == 1

Min(a, b) == IF a < b THEN a ELSE b

Users == {"u1", "u2"}
FolderIds == {"f1", "f2"}
FolderNames == {"Maths", "Physics"}
QuizNames == {"n1", "n2"}
PdfIds == 1..MaxPdfs
QuizIds == 1..MaxQuizzes
VectorPdfIds == 1..Min(MaxVectorPdfs, MaxPdfs)

\* ------------------------------------------------- program constants (MB)
ProcessSizeLimitMB == 50
ExtractSizeLimitMB == 100
FileSizesMB == {1, ProcessSizeLimitMB + 1, ExtractSizeLimitMB + 1}

\* --------------------------------------------------------------- messages
MsgVectorNotFound == "Vector database not found. Please re-upload the PDF."
MsgVectorsDeleted == "PDF vectors deleted successfully"
MsgVectorsCreated == "Vectors created successfully"
MsgNoDocuments == "No documents to process"
MsgCreateFailed == "Failed to create vectors"
MsgPdfNotFound == "PDF not found"
MsgPdfDeleted == "PDF deleted successfully"
MsgPdfDeleteFailed == "Failed to delete PDF"
MsgUploadOk == "PDF uploaded and processed successfully"
MsgUploadFailed == "Upload failed"
MsgSaveFailed == "Error saving PDF"
MsgTooLarge50 == "PDF file too large (>50MB)"
MsgTooLarge100 == "PDF too large (> 100MB)"
MsgExtractEmpty == "No content found in PDF"
MsgExtractError == "Error extracting text"

VARIABLES
    pdfs,       \* the "pdfs" collection: set of PDF records
    nextPdf,    \* number of uploads that got as far as saving a file
    files,      \* uploaded files present on disk, named by their upload
    vectors,    \* existing index directories: (user, pdf) |-> chunk count
    history,    \* per (user, pdf): "never" built, "built", or "deleted" since
    folders,    \* the "folders" collection
    usedFolders, \* folder ids handed out so far (ObjectIds are never reused)
    quizzes,    \* the "saved_quizzes" collection
    nextQuiz,
    last,       \* the response of the last completed operation
    call        \* one call of a stateless operation: its inputs, then its result

vars == <<pdfs, nextPdf, files, vectors, history, folders, usedFolders, quizzes, nextQuiz, last, call>>

ServiceResponse(ok, msg) == [success |-> ok, message |-> msg]

\* ------------------------------------------------------------ VectorService
NoVectors == [pr \in {} |-> 0]

PathExists(vecs, u, p) == <<u, p>> \in DOMAIN vecs

SaveLocal(vecs, u, p, n) ==
    [pr \in (DOMAIN vecs) \cup {<<u, p>>} |-> IF pr = <<u, p>> THEN n ELSE vecs[pr]]

RmTree(vecs, u, p) ==
    [pr \in (DOMAIN vecs) \ {<<u, p>>} |-> vecs[pr]]

\* documents: the number of chunks handed in; embedOk: FAISS.from_documents
\* and save_local did not raise.
create_pdf_vectors(vecs, u, p, documents, embedOk) ==
    IF documents = 0
    THEN [vectors |-> vecs, resp |-> ServiceResponse(FALSE, MsgNoDocuments)]
    ELSE IF ~embedOk
    THEN [vectors |-> vecs, resp |-> ServiceResponse(FALSE, MsgCreateFailed)]
    ELSE [vectors |-> SaveLocal(vecs, u, p, documents),
          resp |-> ServiceResponse(TRUE, MsgVectorsCreated)]

\* A search that treats a missing directory as an empty index.
search_pdf_vectors_no_exists_check(vecs, u, p, n_results) ==
    [success |-> TRUE, message |-> "Found documents",
     data |-> IF PathExists(vecs, u, p) THEN Min(n_results, vecs[<<u, p>>]) ELSE 0]

\* data: the number of documents similarity_search returns, min(k, stored).
search_pdf_vectors(vecs, u, p, n_results) ==
    IF ~PathExists(vecs, u, p)
    THEN [success |-> FALSE, message |-> MsgVectorNotFound, data |-> 0]
    ELSE [success |-> TRUE, message |-> "Found documents",
          data |-> Min(n_results, vecs[<<u, p>>])]

\* A delete that reports a missing directory as an error.
delete_pdf_vectors_strict(vecs, u, p) ==
    IF PathExists(vecs, u, p)
    THEN [vectors |-> RmTree(vecs, u, p), log |-> "Deleted FAISS vectors",
          resp |-> ServiceResponse(TRUE, MsgVectorsDeleted)]
    ELSE [vectors |-> vecs, log |-> "FAISS vectors not found",
          resp |-> ServiceResponse(FALSE, "Failed to delete vectors")]

\* log: the line the call writes, which tells whether it found a directory.
delete_pdf_vectors(vecs, u, p) ==
    [vectors |-> IF PathExists(vecs, u, p) THEN RmTree(vecs, u, p) ELSE vecs,
     log |-> IF PathExists(vecs, u, p) THEN "Deleted FAISS vectors"
                                       ELSE "FAISS vectors not found",
     resp |-> ServiceResponse(TRUE, MsgVectorsDeleted)]

\* --------------------------------------------------------------- PDFService
Faults == {"insert_one", "update_one", "delete_one"}

get_pdf_by_id(ps, p, u) == {r \in ps : r.id = p /\ r.user_id = u}

\* S = [pdfs, files, vectors]; the result adds resp.
delete_pdf(S, p, u, fault) ==
    LET found == get_pdf_by_id(S.pdfs, p, u) IN
    IF found = {}
    THEN [pdfs |-> S.pdfs, files |-> S.files, vectors |-> S.vectors,
          resp |-> ServiceResponse(FALSE, MsgPdfNotFound)]
    ELSE LET pdf == CHOOSE r \in found : TRUE
             files1 == S.files \ {pdf.file_path}
             vecs1 == delete_pdf_vectors(S.vectors, u, p).vectors
         IN  IF fault = "delete_one"
             THEN [pdfs |-> S.pdfs, files |-> files1, vectors |-> vecs1,
                   resp |-> ServiceResponse(FALSE, MsgPdfDeleteFailed)]
             ELSE [pdfs |-> S.pdfs \ found, files |-> files1, vectors |-> vecs1,
                   resp |-> ServiceResponse(TRUE, MsgPdfDeleted)]

\* extract: "error" when the loader or the splitter raises; ndocs: the number
\* of chunks the splitter yields otherwise (0 for a PDF without text).
extract_text_from_pdf(size, extract, ndocs) ==
    IF size > ExtractSizeLimitMB THEN [ok |-> FALSE, message |-> MsgTooLarge100, documents |-> 0]
    ELSE IF extract = "error" THEN [ok |-> FALSE, message |-> MsgExtractError, documents |-> 0]
    ELSE IF ndocs = 0
    THEN [ok |-> FALSE, message |-> MsgExtractEmpty, documents |-> 0]
    ELSE [ok |-> TRUE, message |-> "Extracted text chunks", documents |-> ndocs]

process_pdf_content(vecs, p, u, size, extract, ndocs, embedOk) ==
    IF size > ProcessSizeLimitMB
    THEN [vectors |-> vecs, resp |-> ServiceResponse(FALSE, MsgTooLarge50)]
    ELSE LET ex == extract_text_from_pdf(size, extract, ndocs) IN
         IF ~ex.ok
         THEN [vectors |-> vecs, resp |-> ServiceResponse(FALSE, ex.message)]
         ELSE LET vr == create_pdf_vectors(vecs, u, p, ex.documents, embedOk) IN
              IF ~vr.resp.success THEN vr
              ELSE [vectors |-> vr.vectors,
                    resp |-> ServiceResponse(TRUE, "PDF content processed successfully")]

\* p: the id insert_one hands out; it also names the saved file.
upload_pdf(S, p, u, f, saveOk, size, extract, ndocs, embedOk, fault) ==
    IF ~saveOk
    THEN [pdfs |-> S.pdfs, files |-> S.files, vectors |-> S.vectors,
          resp |-> ServiceResponse(FALSE, MsgSaveFailed)]
    ELSE LET files1 == S.files \cup {p} IN
    IF fault = "insert_one"
    THEN [pdfs |-> S.pdfs, files |-> files1, vectors |-> S.vectors,
          resp |-> ServiceResponse(FALSE, MsgUploadFailed)]
    ELSE LET rec == [id |-> p, user_id |-> u, folder_id |-> f, file_path |-> p,
                     processed |-> FALSE]
             pdfs1 == S.pdfs \cup {rec}
             pr == process_pdf_content(S.vectors, p, u, size, extract, ndocs, embedOk)
         IN
    IF ~pr.resp.success
    THEN LET d == delete_pdf([pdfs |-> pdfs1, files |-> files1, vectors |-> pr.vectors],
                             p, u, fault)
         IN  [pdfs |-> d.pdfs, files |-> d.files, vectors |-> d.vectors, resp |-> pr.resp]
    ELSE IF fault = "update_one"
    THEN [pdfs |-> pdfs1, files |-> files1, vectors |-> pr.vectors,
          resp |-> ServiceResponse(FALSE, MsgUploadFailed)]
    ELSE [pdfs |-> (pdfs1 \ {rec}) \cup {[rec EXCEPT !.processed = TRUE]},
          files |-> files1, vectors |-> pr.vectors,
          resp |-> ServiceResponse(TRUE, MsgUploadOk)]

get_user_pdfs(ps, u, f) == {r \in ps : r.user_id = u /\ r.folder_id = f}

\* The PDFs of a folder newest first, as get_user_pdfs sorts them; every
\* delete that fails raises KeyError('name') at the logging line and ends
\* the loop with an error response.
RECURSIVE delete_folder_pdfs_loop(_, _, _, _)
delete_folder_pdfs_loop(S, todo, u, fault) ==
    IF todo = {}
    THEN [pdfs |-> S.pdfs, files |-> S.files, vectors |-> S.vectors,
          resp |-> ServiceResponse(TRUE, "Successfully deleted PDFs from folder")]
    ELSE LET p == CHOOSE x \in todo : \A y \in todo : y <= x
             d == delete_pdf(S, p, u, fault)
         IN  IF d.resp.success
             THEN delete_folder_pdfs_loop([pdfs |-> d.pdfs, files |-> d.files,
                                           vectors |-> d.vectors], todo \ {p}, u, fault)
             ELSE [pdfs |-> d.pdfs, files |-> d.files, vectors |-> d.vectors,
                   resp |-> ServiceResponse(FALSE, "Failed to delete folder PDFs")]

delete_folder_pdfs(S, f, u, fault) ==
    LET rows == get_user_pdfs(S.pdfs, u, f) IN
    IF rows = {}
    THEN [pdfs |-> S.pdfs, files |-> S.files, vectors |-> S.vectors,
          resp |-> ServiceResponse(TRUE, "No PDFs to delete in folder")]
    ELSE delete_folder_pdfs_loop(S, {r.id : r \in rows}, u, fault)

\* ------------------------------------------------------------ FolderService
MsgFolderExists == "Folder name already exists"
MsgFolderNotFound == "Folder not found"

MsgFolderRequired == "Folder name is required"

\* str.strip() of a name
StripName(name) ==
    CASE name = " " -> ""
      [] name = " Maths " -> "Maths"
      [] OTHER -> name

create_folder(fs, id, u, folder_name) ==
    IF StripName(folder_name) = ""
    THEN [folders |-> fs, resp |-> ServiceResponse(FALSE, MsgFolderRequired)]
    ELSE LET name == StripName(folder_name) IN
         IF \E r \in fs : r.user_id = u /\ r.name = name
         THEN [folders |-> fs, resp |-> ServiceResponse(FALSE, MsgFolderExists)]
         ELSE [folders |-> fs \cup {[id |-> id, user_id |-> u, name |-> name]},
               resp |-> ServiceResponse(TRUE, "Folder created successfully")]

update_folder_name(fs, id, u, new_name) ==
    IF StripName(new_name) = ""
    THEN [folders |-> fs, resp |-> ServiceResponse(FALSE, MsgFolderRequired)]
    ELSE LET name == StripName(new_name)
             found == {r \in fs : r.id = id /\ r.user_id = u}
         IN  IF \E r \in fs : r.user_id = u /\ r.name = name /\ r.id # id
             THEN [folders |-> fs, resp |-> ServiceResponse(FALSE, MsgFolderExists)]
             ELSE IF found = {}
             THEN [folders |-> fs, resp |-> ServiceResponse(FALSE, MsgFolderNotFound)]
             ELSE [folders |-> (fs \ found) \cup {[r EXCEPT !.name = name] : r \in found},
                   resp |-> ServiceResponse(TRUE, "Folder name updated successfully")]

delete_folder(fs, f, u) ==
    LET found == {r \in fs : r.id = f /\ r.user_id = u} IN
    IF found = {}
    THEN [folders |-> fs, resp |-> ServiceResponse(FALSE, MsgFolderNotFound)]
    ELSE [folders |-> fs \ found, resp |-> ServiceResponse(TRUE, "Folder deleted successfully")]

\* --------------------------------------------------------- SavedQuizService
MsgQuizExistsSave == "Quiz name already exists in this folder. Please choose a different name."
MsgQuizExistsRename == "Quiz name already exists in this folder"
MsgQuizNotFound == "Quiz not found"
MsgQuizSaved == "Quiz saved successfully!"
MsgQuizRenamed == "Quiz name updated successfully"
MsgQuizNoChange == "No changes made"
MsgQuizDeleted == "Quiz deleted successfully"
MsgQuizRetrieved == "Quiz retrieved successfully"

\* A save without the name check.
save_quiz_no_name_check(qs, id, u, f, p, quiz_name) ==
    [quizzes |-> qs \cup {[id |-> id, user_id |-> u, folder_id |-> f, pdf_id |-> p,
                            quiz_name |-> quiz_name]},
     resp |-> ServiceResponse(TRUE, MsgQuizSaved)]

save_quiz(qs, id, u, f, p, quiz_name) ==
    IF \E q \in qs : q.user_id = u /\ q.folder_id = f /\ q.quiz_name = quiz_name
    THEN [quizzes |-> qs, resp |-> ServiceResponse(FALSE, MsgQuizExistsSave)]
    ELSE [quizzes |-> qs \cup {[id |-> id, user_id |-> u, folder_id |-> f, pdf_id |-> p,
                                quiz_name |-> quiz_name]},
          resp |-> ServiceResponse(TRUE, MsgQuizSaved)]

get_quiz_by_id(qs, id, u) ==
    IF \E q \in qs : q.id = id /\ q.user_id = u
    THEN ServiceResponse(TRUE, MsgQuizRetrieved)
    ELSE ServiceResponse(FALSE, MsgQuizNotFound)

update_quiz_name(qs, id, u, new_name) ==
    LET found == {q \in qs : q.id = id /\ q.user_id = u} IN
    IF found = {}
    THEN [quizzes |-> qs, resp |-> ServiceResponse(FALSE, MsgQuizNotFound)]
    ELSE LET quiz_data == CHOOSE q \in found : TRUE IN
         IF \E q \in qs : /\ q.user_id = u
                          /\ q.folder_id = quiz_data.folder_id
                          /\ q.quiz_name = new_name
                          /\ q.id # id
         THEN [quizzes |-> qs, resp |-> ServiceResponse(FALSE, MsgQuizExistsRename)]
         ELSE [quizzes |-> (qs \ found) \cup {[quiz_data EXCEPT !.quiz_name = new_name]},
               resp |-> ServiceResponse(TRUE, MsgQuizRenamed)]

\* A delete that filters by _id alone.
delete_quiz_any_user(qs, id, u) ==
    LET found == {q \in qs : q.id = id} IN
    IF found = {}
    THEN [quizzes |-> qs, resp |-> ServiceResponse(FALSE, MsgQuizNotFound)]
    ELSE [quizzes |-> qs \ found, resp |-> ServiceResponse(TRUE, MsgQuizDeleted)]

delete_quiz(qs, id, u) ==
    LET found == {q \in qs : q.id = id /\ q.user_id = u} IN
    IF found = {}
    THEN [quizzes |-> qs, resp |-> ServiceResponse(FALSE, MsgQuizNotFound)]
    ELSE [quizzes |-> qs \ found, resp |-> ServiceResponse(TRUE, MsgQuizDeleted)]

delete_quizzes_by_pdf(qs, p, u) == {q \in qs : ~(q.pdf_id = p /\ q.user_id = u)}

delete_quizzes_by_folder(qs, f, u) == {q \in qs : ~(q.folder_id = f /\ q.user_id = u)}

\* ------------------------------------------------------------------ actions
Last(op, resp, u, p, f, q) ==
    [op |-> op, success |-> resp.success, message |-> resp.message,
     user |-> u, pdf |-> p, folder |-> f, quiz |-> q, name |-> "", log |-> "", data |-> 0]

\* The store's operations record their name, outcome and target only.
StoreLast(op, resp, p) == Last(op, ServiceResponse(resp.success, ""), "", p, "", 0)

NoLast == [op |-> "none", success |-> TRUE, message |-> "", user |-> "", pdf |-> 0,
           folder |-> "", quiz |-> 0, name |-> "", log |-> "", data |-> 0]

NoCall == [op |-> "none", done |-> TRUE]

Store == [pdfs |-> pdfs, files |-> files, vectors |-> vectors]

Init ==
    /\ pdfs = {}
    /\ nextPdf = 0
    /\ files = {}
    /\ vectors = NoVectors
    /\ history = [pr \in Users \X PdfIds |-> "never"]
    /\ folders = {}
    /\ usedFolders = {}
    /\ quizzes = {}
    /\ nextQuiz = 0
    /\ last = NoLast
    /\ call = NoCall

\* app.py _show_pdf_upload_form -> PDFService.upload_pdf; the form is shown
\* for the selected folder of the signed-in user.
UploadPdf(fault) ==
    /\ nextPdf < MaxPdfs
    /\ \E folder \in folders, saveOk \in BOOLEAN, size \in FileSizesMB,
          extract \in {"ok", "error"}, ndocs \in 0..MaxChunks, embedOk \in BOOLEAN :
         LET p == nextPdf + 1
             u == folder.user_id
             f == folder.id
             r == upload_pdf(Store, p, u, f, saveOk, size, extract, ndocs, embedOk, fault)
         IN  /\ pdfs' = r.pdfs
             /\ files' = r.files
             /\ vectors' = r.vectors
             /\ nextPdf' = IF saveOk THEN p ELSE nextPdf
             /\ last' = StoreLast("upload_pdf", r.resp, p)
    /\ UNCHANGED <<call, history, folders, usedFolders, quizzes, nextQuiz>>

\* app.py _handle_pdf_deletion: the main-page confirmation dialog
HandlePdfDeletion(fault) ==
    /\ \E u \in Users, p \in PdfIds :
         LET r == delete_pdf(Store, p, u, fault)
         IN  /\ pdfs' = r.pdfs
             /\ files' = r.files
             /\ vectors' = r.vectors
             /\ last' = StoreLast("handle_pdf_deletion", r.resp, p)
    /\ UNCHANGED <<call, nextPdf, history, folders, usedFolders, quizzes, nextQuiz>>

\* folder_manager.py FolderManager._delete_pdf
FolderManagerDeletePdf(fault) ==
    /\ \E u \in Users, p \in PdfIds :
         LET r == delete_pdf(Store, p, u, fault)
         IN  /\ quizzes' = delete_quizzes_by_pdf(quizzes, p, u)
             /\ pdfs' = r.pdfs
             /\ files' = r.files
             /\ vectors' = r.vectors
             /\ last' = StoreLast("folder_manager_delete_pdf", r.resp, p)
    /\ UNCHANGED <<call, nextPdf, history, folders, usedFolders, nextQuiz>>

\* folder_manager.py FolderManager._delete_folder_and_contents
DeleteFolderAndContents(fault) ==
    /\ \E u \in Users, f \in FolderIds :
         LET r == delete_folder_pdfs(Store, f, u, fault)
             fr == delete_folder(folders, f, u)
         IN  /\ quizzes' = delete_quizzes_by_folder(quizzes, f, u)
             /\ pdfs' = r.pdfs
             /\ files' = r.files
             /\ vectors' = r.vectors
             /\ folders' = fr.folders
             /\ last' = StoreLast("delete_folder_and_contents", fr.resp, 0)
    /\ UNCHANGED <<call, nextPdf, history, usedFolders, nextQuiz>>

CreateFolder(names) ==
    /\ usedFolders # FolderIds
    /\ \E u \in Users, name \in names :
         LET id == CHOOSE x \in FolderIds \ usedFolders : TRUE
             r == create_folder(folders, id, u, name)
         IN  /\ folders' = r.folders
             /\ usedFolders' = IF r.resp.success THEN usedFolders \cup {id} ELSE usedFolders
             /\ last' = StoreLast("create_folder", r.resp, 0)
    /\ UNCHANGED <<call, pdfs, nextPdf, files, vectors, history, quizzes, nextQuiz>>

\* A quiz is saved from the quiz page, which generate_quiz only fills for a
\* processed PDF of the signed-in user, in the folder that holds it.
SaveQuizFromQuizPage ==
    /\ nextQuiz < MaxUiQuizzes
    /\ \E pdf \in pdfs, name \in QuizNames :
         LET id == nextQuiz + 1
             r == save_quiz(quizzes, id, pdf.user_id, pdf.folder_id, pdf.id, name)
         IN  /\ pdf.processed
             /\ quizzes' = r.quizzes
             /\ nextQuiz' = IF r.resp.success THEN id ELSE nextQuiz
             /\ last' = StoreLast("save_quiz", r.resp, pdf.id)
    /\ UNCHANGED <<call, pdfs, nextPdf, files, vectors, history, folders, usedFolders>>

CreateFolderOne == CreateFolder({"Maths"})

UploadPdfOk == UploadPdf("none")
HandlePdfDeletionOk == HandlePdfDeletion("none")
FolderManagerDeletePdfOk == FolderManagerDeletePdf("none")
DeleteFolderAndContentsOk == DeleteFolderAndContents("none")

Next ==
    \/ UploadPdfOk
    \/ HandlePdfDeletionOk
    \/ FolderManagerDeletePdfOk
    \/ DeleteFolderAndContentsOk
    \/ CreateFolderOne
    \/ SaveQuizFromQuizPage

Spec == Init /\ [][Next]_vars

\* The same store when a database call may raise.
UploadPdfFault == \E fault \in Faults : UploadPdf(fault)
HandlePdfDeletionFault == \E fault \in Faults : HandlePdfDeletion(fault)

NextFault ==
    \/ UploadPdfOk
    \/ HandlePdfDeletionOk
    \/ UploadPdfFault
    \/ HandlePdfDeletionFault
    \/ CreateFolderOne

SpecFault == Init /\ [][NextFault]_vars

\* ------------------------------------------- the vector service on its own
NResults == {5, 6, 8}

CreatePdfVectors ==
    /\ \E u \in Users, p \in VectorPdfIds, documents \in 0..MaxChunks, embedOk \in BOOLEAN :
         LET r == create_pdf_vectors(vectors, u, p, documents, embedOk)
         IN  /\ vectors' = r.vectors
             /\ history' = IF r.resp.success THEN [history EXCEPT ![<<u, p>>] = "built"]
                                               ELSE history
             /\ last' = Last("create_pdf_vectors", r.resp, u, p, "", 0)
    /\ UNCHANGED <<call, pdfs, nextPdf, files, folders, usedFolders, quizzes, nextQuiz>>

SearchPdfVectors ==
    /\ \E u \in Users, p \in VectorPdfIds, n_results \in NResults :
         LET r == search_pdf_vectors(vectors, u, p, n_results)
         IN  last' = [Last("search_pdf_vectors", r, u, p, "", 0) EXCEPT !.data = r.data]
    /\ UNCHANGED <<call, pdfs, nextPdf, files, vectors, history, folders, usedFolders, quizzes, nextQuiz>>

DeletePdfVectors ==
    /\ \E u \in Users, p \in VectorPdfIds :
         LET r == delete_pdf_vectors(vectors, u, p)
         IN  /\ vectors' = r.vectors
             /\ history' = IF history[<<u, p>>] = "built"
                            THEN [history EXCEPT ![<<u, p>>] = "deleted"]
                            ELSE history
             /\ last' = [Last("delete_pdf_vectors", r.resp, u, p, "", 0) EXCEPT !.log = r.log]
    /\ UNCHANGED <<call, pdfs, nextPdf, files, folders, usedFolders, quizzes, nextQuiz>>

NextVector ==
    \/ CreatePdfVectors
    \/ SearchPdfVectors
    \/ DeletePdfVectors

SpecVector == Init /\ [][NextVector]_vars

\* ---------------------------------------- the saved-quiz service on its own
SaveQuiz ==
    /\ nextQuiz < MaxQuizzes
    /\ \E u \in Users, f \in FolderIds, name \in QuizNames :
         LET id == nextQuiz + 1
             r == save_quiz(quizzes, id, u, f, 1, name)
         IN  /\ quizzes' = r.quizzes
             /\ nextQuiz' = IF r.resp.success THEN id ELSE nextQuiz
             /\ last' = [Last("save_quiz", r.resp, u, 0, f, id) EXCEPT !.name = name]
    /\ UNCHANGED <<call, pdfs, nextPdf, files, vectors, history, folders, usedFolders>>

GetQuizById ==
    /\ \E id \in QuizIds, u \in Users :
         last' = Last("get_quiz_by_id", get_quiz_by_id(quizzes, id, u), u, 0, "", id)
    /\ UNCHANGED <<call, pdfs, nextPdf, files, vectors, history, folders, usedFolders, quizzes, nextQuiz>>

UpdateQuizName ==
    /\ \E id \in QuizIds, u \in Users, new_name \in QuizNames :
         LET r == update_quiz_name(quizzes, id, u, new_name)
         IN  /\ quizzes' = r.quizzes
             /\ last' = [Last("update_quiz_name", r.resp, u, 0, "", id) EXCEPT !.name = new_name]
    /\ UNCHANGED <<call, pdfs, nextPdf, files, vectors, history, folders, usedFolders, nextQuiz>>

DeleteQuiz ==
    /\ \E id \in QuizIds, u \in Users :
         LET r == delete_quiz(quizzes, id, u)
         IN  /\ quizzes' = r.quizzes
             /\ last' = Last("delete_quiz", r.resp, u, 0, "", id)
    /\ UNCHANGED <<call, pdfs, nextPdf, files, vectors, history, folders, usedFolders, nextQuiz>>

NextQuiz ==
    \/ SaveQuiz
    \/ GetQuizById
    \/ UpdateQuizName
    \/ DeleteQuiz

SpecQuiz == Init /\ [][NextQuiz]_vars

\* ------------------------------------------------------------------- text
\* A text is a sequence of tokens, each a run of whitespace or a word (a run
\* of other characters) of a given length; a word is its lower-case form and
\* whether it holds upper-case letters. Words are separated by whitespace.
Ws(n) == [ws |-> TRUE, len |-> n, base |-> "", upper |-> FALSE]
Word(b, n, up) == [ws |-> FALSE, len |-> n, base |-> b, upper |-> up]

RECURSIVE TextLen(_)
TextLen(t) == IF t = <<>> THEN 0 ELSE Head(t).len + TextLen(Tail(t))

RECURSIVE LStrip(_)
LStrip(t) == IF t # <<>> /\ Head(t).ws THEN LStrip(Tail(t)) ELSE t

RECURSIVE RStrip(_)
RStrip(t) ==
    IF t # <<>> /\ t[Len(t)].ws THEN RStrip(SubSeq(t, 1, Len(t) - 1)) ELSE t

Strip(t) == RStrip(LStrip(t))

Lower(t) == [i \in 1..Len(t) |-> [t[i] EXCEPT !.upper = FALSE]]

\* set(text.split())
SplitWords(t) == {t[i] : i \in {j \in 1..Len(t) : ~t[j].ws}}

RECURSIVE Join(_, _)
Join(sep, texts) ==
    IF texts = <<>> THEN <<>>
    ELSE IF Len(texts) = 1 THEN texts[1]
    ELSE texts[1] \o <<sep>> \o Join(sep, Tail(texts))

\* --------------------------------------------------------------- ChatService
WeakMinLen == 50
WeakOverlapLen == 200
CaveatLen == 100
ChatNResults == 6

common_words ==
    {"the", "a", "an", "and", "or", "but", "in", "on", "at", "to", "for", "of", "with", "by"}

\* The heuristic without strip(): it measures the raw length twice.
is_context_too_weak_raw_length(question, context) ==
    IF TextLen(context) < WeakMinLen THEN TRUE
    ELSE LET question_words == {w \in SplitWords(Lower(question)) : w.base \notin common_words}
             context_words == SplitWords(Lower(context))
             overlap == Cardinality(question_words \cap context_words)
         IN  overlap = 0 /\ TextLen(context) < WeakOverlapLen

is_context_too_weak(question, context) ==
    IF TextLen(Strip(context)) < WeakMinLen THEN TRUE
    ELSE LET question_words == {w \in SplitWords(Lower(question)) : w.base \notin common_words}
             context_words == SplitWords(Lower(context))
             overlap == Cardinality(question_words \cap context_words)
         IN  overlap = 0 /\ TextLen(context) < WeakOverlapLen

MsgModelUnavailable == "AI model not available"
MsgStillProcessing == "PDF is still being processed"
MsgNoRelevantInfo == "No relevant information found in the PDF"
MsgResponseGenerated == "Response generated successfully"
MsgResponseFailed == "Failed to generate response"
CannedResponse == "I couldn't find enough relevant information in the document"
CaveatPrefix == "The document may not fully cover this topic."
ChatModes == {"Explain", "Tutor", "Quiz Me"}

\* What chain.invoke does: "text" an answer, "empty" an empty answer, "raise"
\* an exception, which each _generate_* helper turns into "".
LlmOutcomes == {"text", "empty", "raise"}

ChatResult(ok, msg, response, mode, used, invoked, retrieved, context) ==
    [success |-> ok, message |-> msg, response |-> response, mode |-> mode,
     context_used |-> used, llm_invoked |-> invoked, retrieved |-> retrieved,
     context |-> context]

ChatError(msg, retrieved, context, invoked) ==
    ChatResult(FALSE, msg, <<>>, "", 0, invoked, retrieved, context)

\* _generate_explanation, _generate_tutor_response, _generate_quiz_feedback
generate_response(llm) == IF llm = "text" THEN <<"answer">> ELSE <<>>

\* chat_with_pdf with the weak-context gate placed after the generation.
chat_with_pdf_gate_after_llm(ps, vecs, docs, modelOk, u, p, question, mode, llm) ==
    IF ~modelOk THEN ChatError(MsgModelUnavailable, FALSE, <<>>, FALSE) ELSE
    LET pdf == get_pdf_by_id(ps, p, u) IN
    IF pdf = {} THEN ChatError(MsgPdfNotFound, FALSE, <<>>, FALSE) ELSE
    IF \E r \in pdf : ~r.processed THEN ChatError(MsgStillProcessing, FALSE, <<>>, FALSE) ELSE
    LET search_result == search_pdf_vectors(vecs, u, p, ChatNResults) IN
    IF ~search_result.success \/ search_result.data = 0
    THEN ChatError(MsgNoRelevantInfo, FALSE, <<>>, FALSE) ELSE
    LET context == Join(Ws(2), SubSeq(docs, 1, search_result.data))
        response == generate_response(llm)
    IN
    IF is_context_too_weak(question, context)
    THEN ChatResult(TRUE, MsgResponseGenerated, <<CannedResponse>>, mode, 0, TRUE, TRUE, context)
    ELSE IF response = <<>> THEN ChatError(MsgResponseFailed, TRUE, context, TRUE)
    ELSE ChatResult(TRUE, MsgResponseGenerated, response, mode, search_result.data,
                    TRUE, TRUE, context)

\* docs: the page_content of the chunks stored in the index of (u, p), in the
\* order similarity_search returns them.
chat_with_pdf(ps, vecs, docs, modelOk, u, p, question, mode, llm) ==
    IF ~modelOk THEN ChatError(MsgModelUnavailable, FALSE, <<>>, FALSE) ELSE
    LET pdf == get_pdf_by_id(ps, p, u) IN
    IF pdf = {} THEN ChatError(MsgPdfNotFound, FALSE, <<>>, FALSE) ELSE
    IF \E r \in pdf : ~r.processed THEN ChatError(MsgStillProcessing, FALSE, <<>>, FALSE) ELSE
    LET search_result == search_pdf_vectors(vecs, u, p, ChatNResults) IN
    IF ~search_result.success \/ search_result.data = 0
    THEN ChatError(MsgNoRelevantInfo, FALSE, <<>>, FALSE) ELSE
    LET context == Join(Ws(2), SubSeq(docs, 1, search_result.data)) IN
    IF is_context_too_weak(question, context)
    THEN ChatResult(TRUE, MsgResponseGenerated, <<CannedResponse>>, mode, 0, FALSE, TRUE, context)
    ELSE
    LET response == generate_response(llm) IN
    IF response = <<>> THEN ChatError(MsgResponseFailed, TRUE, context, TRUE)
    ELSE LET clean_response == IF TextLen(context) < CaveatLen
                               THEN <<CaveatPrefix>> \o response ELSE response
         IN  ChatResult(TRUE, MsgResponseGenerated, clean_response, mode,
                        search_result.data, TRUE, TRUE, context)

\* --------------------------------------------------------------- QuizService
\* A Python argument: its type, its integer value (for a float, the value
\* truncated towards zero) and its text (for a float, finite, nan or inf).
PyNone == [t |-> "none", n |-> 0, s |-> ""]
Omitted == [t |-> "omitted", n |-> 0, s |-> ""]
PyInt(n) == [t |-> "int", n |-> n, s |-> ""]
PyBool(b) == [t |-> "bool", n |-> IF b THEN 1 ELSE 0, s |-> ""]
PyFloat(n) == [t |-> "float", n |-> n, s |-> "finite"]
PyNan == [t |-> "float", n |-> 0, s |-> "nan"]
PyInf == [t |-> "float", n |-> 0, s |-> "inf"]
PyStr(s) == [t |-> "str", n |-> 0, s |-> s]
PyList == [t |-> "list", n |-> 0, s |-> "[]"]

\* float(s): the float the text denotes, or a ValueError.
FloatOfStr(s) ==
    CASE s = "3" -> [raise |-> "none", v |-> PyFloat(3)]
      [] s = "3.0" -> [raise |-> "none", v |-> PyFloat(3)]
      [] s = "7.9" -> [raise |-> "none", v |-> PyFloat(7)]
      [] s = "0" -> [raise |-> "none", v |-> PyFloat(0)]
      [] s = "-2" -> [raise |-> "none", v |-> PyFloat(0 - 2)]
      [] s = "25" -> [raise |-> "none", v |-> PyFloat(25)]
      [] s = "inf" -> [raise |-> "none", v |-> PyInf]
      [] s = "nan" -> [raise |-> "none", v |-> PyNan]
      [] OTHER -> [raise |-> "ValueError", v |-> PyNone]

\* int(x) of a float
IntOfFloat(x) ==
    CASE x.s = "finite" -> [raise |-> "none", v |-> x.n]
      [] x.s = "nan" -> [raise |-> "ValueError", v |-> 0]
      [] x.s = "inf" -> [raise |-> "OverflowError", v |-> 0]

\* str(x) of an argument
StrOf(x) ==
    CASE x.t = "str" -> x.s
      [] x.t = "int" -> "<digits>"
      [] x.t = "bool" -> IF x.n = 1 THEN "True" ELSE "False"
      [] x.t = "float" -> "<float>"
      [] OTHER -> x.s

QuizTypes == {"MCQ", "Open-ended"}
Difficulties == {"Easy", "Medium", "Hard"}
DefaultNumQuestions == 5
FallbackNumQuestions == 3
MinQuestions == 1
MaxQuestions == 10
QuizNResults == 8
MsgUserRequired == "User ID is required"
MsgPdfRequired == "PDF ID is required"
MsgNoContent == "No content available to generate quiz"
MsgQuizContentFailed == "Failed to generate quiz content"
MsgQuizGenerated == "Quiz generated successfully"
MsgQuizGenerationFailed == "Quiz generation failed"
NoUserId == "None"
NoPdfId == 0

Max(a, b) == IF a > b THEN a ELSE b

\* The value an omitted argument takes from the signature.
Arg(x, default) == IF x = Omitted THEN default ELSE x

coerce_quiz_type(x) ==
    LET quiz_type == IF x = PyNone THEN "MCQ" ELSE StrOf(x)
    IN  IF quiz_type \notin QuizTypes THEN "MCQ" ELSE quiz_type

coerce_difficulty(x) ==
    LET difficulty == IF x = PyNone THEN "Medium" ELSE StrOf(x)
    IN  IF difficulty \notin Difficulties THEN "Medium" ELSE difficulty

\* The conversion of num_questions to an int: the int, or the exception that
\* leaves the conversion.
convert_num_questions(x) ==
    LET num_questions == IF x = PyNone THEN PyInt(FallbackNumQuestions) ELSE x
        r == CASE num_questions.t = "str" ->
                      LET f == FloatOfStr(num_questions.s)
                      IN  IF f.raise # "none" THEN [raise |-> f.raise, v |-> 0]
                          ELSE IntOfFloat(f.v)
               [] num_questions.t = "float" -> IntOfFloat(num_questions)
               [] num_questions.t \notin {"int", "bool"} ->
                      [raise |-> "none", v |-> FallbackNumQuestions]
               [] OTHER -> [raise |-> "none", v |-> num_questions.n]
    IN  IF r.raise \in {"ValueError", "TypeError"}
        THEN [raise |-> "none", v |-> FallbackNumQuestions]
        ELSE r

\* The range validation left out.
clamp_num_questions_unclamped(n) == n

clamp_num_questions(n) ==
    IF n < MinQuestions \/ n > MaxQuestions
    THEN Min(Max(n, MinQuestions), MaxQuestions)
    ELSE n

QuizResult(ok, msg, type, n, difficulty, prompted) ==
    [success |-> ok, message |-> msg, type |-> type, num_questions |-> n,
     difficulty |-> difficulty, prompted |-> prompted]

QuizError(msg) == QuizResult(FALSE, msg, "", 0, "", FALSE)

\* prompted: the template was filled with type, num_questions and difficulty.
generate_quiz(ps, vecs, modelOk, u, p, quiz_type_arg, num_questions_arg, difficulty_arg, llm) ==
    IF u = NoUserId THEN QuizError(MsgUserRequired) ELSE
    IF p = NoPdfId THEN QuizError(MsgPdfRequired) ELSE
    LET quiz_type == coerce_quiz_type(Arg(quiz_type_arg, PyStr("MCQ")))
        conv == convert_num_questions(Arg(num_questions_arg, PyInt(DefaultNumQuestions)))
    IN
    IF conv.raise # "none" THEN QuizError(MsgQuizGenerationFailed) ELSE
    LET num_questions == clamp_num_questions(conv.v)
        difficulty == coerce_difficulty(Arg(difficulty_arg, PyStr("Medium")))
    IN
    IF ~modelOk THEN QuizError(MsgModelUnavailable) ELSE
    LET pdf == get_pdf_by_id(ps, p, u) IN
    IF pdf = {} THEN QuizError(MsgPdfNotFound) ELSE
    IF \E r \in pdf : ~r.processed THEN QuizError(MsgStillProcessing) ELSE
    LET search_result == search_pdf_vectors(vecs, u, p, QuizNResults) IN
    IF ~search_result.success \/ search_result.data = 0 THEN QuizError(MsgNoContent) ELSE
    IF llm # "text"
    THEN QuizResult(FALSE, MsgQuizContentFailed, quiz_type, num_questions, difficulty, TRUE)
    ELSE QuizResult(TRUE, MsgQuizGenerated, quiz_type, num_questions, difficulty, TRUE)

\* ------------------------------------------- the weak-context heuristic alone
MaxTokens == 3
WsTokens == {Ws(1), Ws(60), Ws(200)}
ContextWordTokens ==
    {Word("cell", 4, FALSE), Word("cell", 4, TRUE), Word("the", 3, FALSE),
     Word("w60", 60, FALSE), Word("w190", 190, FALSE)}
QuestionWordTokens ==
    {Word("cell", 4, FALSE), Word("cell", 4, TRUE), Word("the", 3, TRUE),
     Word("w60", 60, FALSE)}

Alternating(t) == \A i \in 1..(Len(t) - 1) : t[i].ws # t[i + 1].ws

TextsOver(tokens) ==
    {t \in UNION {[1..k -> tokens] : k \in 0..MaxTokens} : Alternating(t)}

Contexts == TextsOver(WsTokens \cup ContextWordTokens)
Questions == TextsOver({Ws(1)} \cup QuestionWordTokens)

InitStore ==
    /\ pdfs = {}
    /\ nextPdf = 0
    /\ files = {}
    /\ vectors = NoVectors
    /\ history = [pr \in Users \X PdfIds |-> "never"]
    /\ folders = {}
    /\ usedFolders = {}
    /\ quizzes = {}
    /\ nextQuiz = 0
    /\ last = NoLast

store_vars ==
    <<pdfs, nextPdf, files, vectors, history, folders, usedFolders, quizzes, nextQuiz, last>>

InitWeak ==
    /\ InitStore
    /\ call \in {[op |-> "_is_context_too_weak", done |-> FALSE, question |-> q,
                  context |-> c, result |-> FALSE] : q \in Questions, c \in Contexts}

IsContextTooWeak ==
    /\ call.op = "_is_context_too_weak"
    /\ ~call.done
    /\ call' = [call EXCEPT !.done = TRUE,
                            !.result = is_context_too_weak(call.question, call.context)]
    /\ UNCHANGED store_vars

NextWeak == IsContextTooWeak

SpecWeak == InitWeak /\ [][NextWeak]_vars

\* ---------------------------------------------------------- one chat request
ChunkTexts ==
    {<<Word("cell", 4, FALSE)>>, <<Word("cell", 4, TRUE)>>, <<Word("w60", 60, FALSE)>>,
     <<Word("w190", 190, FALSE)>>, <<Ws(60)>>}
ChatQuestions ==
    {<<Word("cell", 4, FALSE)>>, <<Word("the", 3, TRUE)>>,
     <<Word("the", 3, TRUE), Ws(1), Word("w60", 60, FALSE)>>}
ChatDocs == UNION {[1..k -> ChunkTexts] : k \in 1..MaxChunks}

\* The record of PDF 1 of u1 in folder f1.
PdfRecord(processed) ==
    [id |-> 1, user_id |-> "u1", folder_id |-> "f1", file_path |-> 1, processed |-> processed]

InitService(processed, chunks) ==
    /\ pdfs = {PdfRecord(processed)}
    /\ nextPdf = 1
    /\ files = {1}
    /\ vectors = [pr \in {<<"u1", 1>> : k \in 1..chunks} |-> chunks]
    /\ history = [pr \in Users \X PdfIds |-> "never"]
    /\ folders = {}
    /\ usedFolders = {}
    /\ quizzes = {}
    /\ nextQuiz = 0
    /\ last = NoLast

InitChat ==
    \E processed \in BOOLEAN, indexed \in BOOLEAN, docs \in ChatDocs :
        /\ InitService(processed, IF indexed THEN Len(docs) ELSE 0)
        /\ call \in {[op |-> "chat_with_pdf", done |-> FALSE, docs |-> docs,
                      modelOk |-> m, user |-> u, pdf |-> 1, question |-> q, mode |-> mode,
                      llm |-> llm, out |-> ChatError("", FALSE, <<>>, FALSE)] :
                     m \in BOOLEAN, u \in Users, q \in ChatQuestions, mode \in ChatModes,
                     llm \in LlmOutcomes}

ChatWithPdf ==
    /\ call.op = "chat_with_pdf"
    /\ ~call.done
    /\ call' = [call EXCEPT !.done = TRUE,
                            !.out = chat_with_pdf(pdfs, vectors, call.docs, call.modelOk,
                                                  call.user, call.pdf, call.question,
                                                  call.mode, call.llm)]
    /\ UNCHANGED store_vars

NextChat == ChatWithPdf

SpecChat == InitChat /\ [][NextChat]_vars

\* ------------------------------------------------- one quiz-generation request
QuizTypeArgs ==
    {Omitted, PyNone, PyStr("MCQ"), PyStr("Open-ended"), PyStr("mcq"), PyInt(1)}
DifficultyArgs ==
    {Omitted, PyNone, PyStr("Easy"), PyStr("Medium"), PyStr("Hard"), PyStr("easy")}
NumQuestionsArgs ==
    {Omitted, PyNone, PyList, PyBool(TRUE), PyNan, PyInf, PyFloat(3), PyFloat(0), PyFloat(12)}
    \cup {PyInt(n) : n \in {0 - 1, 0, 1, 3, 5, 10, 11}}
    \cup {PyStr(t) : t \in {"3", "3.0", "7.9", "0", "-2", "25", "inf", "nan", "abc", ""}}

InitGen ==
    \E processed \in BOOLEAN, indexed \in BOOLEAN :
        /\ InitService(processed, IF indexed THEN MaxChunks ELSE 0)
        /\ call \in {[op |-> "generate_quiz", done |-> FALSE, modelOk |-> m, user |-> u,
                      pdf |-> p, quiz_type |-> qt, num_questions |-> n, difficulty |-> d,
                      llm |-> llm, out |-> QuizError("")] :
                     m \in BOOLEAN, u \in {"u1", "u2", NoUserId}, p \in {1, NoPdfId},
                     qt \in QuizTypeArgs, n \in NumQuestionsArgs, d \in DifficultyArgs,
                     llm \in {"text", "empty"}}

GenerateQuiz ==
    /\ call.op = "generate_quiz"
    /\ ~call.done
    /\ call' = [call EXCEPT !.done = TRUE,
                            !.out = generate_quiz(pdfs, vectors, call.modelOk, call.user,
                                                  call.pdf, call.quiz_type,
                                                  call.num_questions, call.difficulty,
                                                  call.llm)]
    /\ UNCHANGED store_vars

NextGen == GenerateQuiz

SpecGen == InitGen /\ [][NextGen]_vars

\* ------------------------------------------------------ quiz text as atoms
\* A generated quiz is a sequence of atoms: single characters and whole
\* words, with NL for the newline. What a regular expression or a substring
\* test sees of an atom is its first and last character, whether it is a
\* single character, and its lower-case form.
NL == "<nl>"
AnswerLetters == <<"A", "B", "C", "D">>
UpperLetters == {"A", "B", "C", "D"}
LowerLetters == {"a", "b", "c", "d"}
DigitAtoms == {"1", "2", "3"}
CharAtoms ==
    UpperLetters \cup LowerLetters \cup DigitAtoms \cup {")", ".", "?", ":", "*", " ", NL}

IsWs(a) == a \in {" ", NL}

FirstChar(a) ==
    CASE a \in CharAtoms -> a
      [] a = "**" -> "*"
      [] a = "Answer" -> "A"
      [] a = "answer" -> "a"
      [] a = "Correct" -> "C"
      [] a = "correct" -> "c"
      [] a = "Both" -> "B"
      [] a = "The" -> "T"
      [] a = "is" -> "i"
      [] a = "Question" -> "Q"
      [] a = "(correct)" -> "("
      [] a = "(answer)" -> "("
      [] OTHER -> "t"

LastChar(a) ==
    CASE a \in CharAtoms -> a
      [] a = "**" -> "*"
      [] a \in {"Answer", "answer"} -> "r"
      [] a \in {"(correct)", "(answer)"} -> ")"
      [] a = "Both" -> "h"
      [] a = "The" -> "e"
      [] a = "is" -> "s"
      [] a = "Question" -> "n"
      [] OTHER -> "t"

\* str.lower() and str.upper() of an atom
LowerAtom(a) ==
    CASE a = "A" -> "a" [] a = "B" -> "b" [] a = "C" -> "c" [] a = "D" -> "d"
      [] a = "Answer" -> "answer"
      [] a = "Correct" -> "correct"
      [] a = "Both" -> "both"
      [] a = "The" -> "the"
      [] a = "Question" -> "question"
      [] OTHER -> a

UpperChar(c) ==
    CASE c = "a" -> "A" [] c = "b" -> "B" [] c = "c" -> "C" [] c = "d" -> "D"
      [] OTHER -> c

MinOf(S) == CHOOSE m \in S : \A k \in S : m <= k

\* The first index from i on that is not whitespace.
SkipWs(s, i) == MinOf({j \in i..(Len(s) + 1) : j = Len(s) + 1 \/ ~IsWs(s[j])})

\* str.strip() of a line or block
StripAtoms(s) ==
    LET keep == {j \in 1..Len(s) : ~IsWs(s[j])}
    IN  IF keep = {} THEN <<>>
        ELSE SubSeq(s, MinOf(keep), CHOOSE m \in keep : \A k \in keep : k <= m)

\* str.split(sep) for a one-atom separator
RECURSIVE SplitAtoms(_, _)
SplitAtoms(s, sep) ==
    LET at == {j \in 1..Len(s) : s[j] = sep}
    IN  IF at = {} THEN <<s>>
        ELSE <<SubSeq(s, 1, MinOf(at) - 1)>>
             \o SplitAtoms(SubSeq(s, MinOf(at) + 1, Len(s)), sep)

\* lines = [line.strip() for line in block.split('\n') if line.strip()]
BlockLines(block) ==
    LET raw == SplitAtoms(block, NL)
    IN  SelectSeq([i \in 1..Len(raw) |-> StripAtoms(raw[i])], LAMBDA l : l # <<>>)

\* ------------------------------------------- regular expressions over atoms
\* A pattern is a sequence of items: a literal atom compared in lower case
\* (re.IGNORECASE), \s+, \s*, and the group ([A-Da-d]).
Lit(v) == [k |-> "lit", v |-> v]
WsPlus == [k |-> "ws+", v |-> ""]
WsStar == [k |-> "ws*", v |-> ""]
Cap == [k |-> "cap", v |-> ""]

\* The match of pat at index i: <<>> if there is none, else <<the group>>.
\* The group takes one character: the first of the atom when the pattern
\* ends there, the whole atom when more of the pattern follows.
RECURSIVE MatchFrom(_, _, _, _)
MatchFrom(s, i, pat, cap) ==
    IF pat = <<>> THEN <<cap>>
    ELSE LET it == Head(pat)
             rest == Tail(pat)
         IN  CASE it.k = "ws*" -> MatchFrom(s, SkipWs(s, i), rest, cap)
               [] it.k = "ws+" ->
                    IF i <= Len(s) /\ IsWs(s[i])
                    THEN MatchFrom(s, SkipWs(s, i), rest, cap) ELSE <<>>
               [] it.k = "lit" ->
                    IF i <= Len(s) /\ LowerAtom(s[i]) = it.v
                    THEN MatchFrom(s, i + 1, rest, cap) ELSE <<>>
               [] it.k = "cap" ->
                    IF i <= Len(s) /\ FirstChar(s[i]) \in UpperLetters \cup LowerLetters
                       /\ (rest = <<>> \/ s[i] \in CharAtoms)
                    THEN MatchFrom(s, i + 1, rest, UpperChar(FirstChar(s[i]))) ELSE <<>>

\* re.search(pattern, block): the leftmost match; with anchored, only at the
\* start of a line (^ under re.MULTILINE).
Search(s, pat, anchored) ==
    LET starts == {i \in 1..Len(s) :
                      /\ anchored => (i = 1 \/ s[i - 1] = NL)
                      /\ MatchFrom(s, i, pat, "") # <<>>}
    IN  IF starts = {} THEN <<>> ELSE MatchFrom(s, MinOf(starts), pat, "")

answer_patterns ==
    << [pat |-> <<Lit("correct"), WsPlus, Lit("answer"), Lit(":"), WsStar, Cap>>, anchored |-> FALSE],
       [pat |-> <<Lit("answer"), Lit(":"), WsStar, Cap>>, anchored |-> FALSE],
       [pat |-> <<Lit("correct"), Lit(":"), WsStar, Cap>>, anchored |-> FALSE],
       [pat |-> <<Lit("the"), WsPlus, Lit("correct"), WsPlus, Lit("answer"), WsPlus, Lit("is"),
                  WsStar, Cap>>, anchored |-> FALSE],
       [pat |-> <<Lit("answer"), WsStar, Lit("is"), WsStar, Cap>>, anchored |-> FALSE],
       [pat |-> <<Lit("**"), Cap, Lit("**")>>, anchored |-> FALSE],
       [pat |-> <<WsStar, Cap, WsStar, Lit("(correct)")>>, anchored |-> TRUE] >>

\* Strategy 1: the first pattern of the list that matches.
RECURSIVE FirstPatternMatch(_, _)
FirstPatternMatch(block, pats) ==
    IF pats = <<>> THEN <<>>
    ELSE LET m == Search(block, Head(pats).pat, Head(pats).anchored)
         IN  IF m # <<>> THEN m ELSE FirstPatternMatch(block, Tail(pats))

\* Strategy 2: f'*{letter}' in block or f'{letter}*' in block
AsteriskMarked(block, letter) ==
    \E i \in 1..(Len(block) - 1) :
        \/ LastChar(block[i]) = "*" /\ FirstChar(block[i + 1]) = letter
        \/ LastChar(block[i]) = letter /\ FirstChar(block[i + 1]) = "*"

\* Strategy 3: line.startswith('A)') or line.startswith('A.'), with a marker
OptionLineMarked(line, letter) ==
    /\ Len(line) >= 2
    /\ line[1] = letter
    /\ FirstChar(line[2]) \in {")", "."}
    /\ \E i \in 1..Len(line) : LowerAtom(line[i]) = "(correct)" \/ line[i] \in {"*", "**"}

\* Strategy 4: ([A-D])\).*<marker>, on one line since . does not match \n
EmphasisMatch(block, markers) ==
    LET starts == {i \in 1..(Len(block) - 1) :
                      /\ LastChar(block[i]) \in UpperLetters \cup LowerLetters
                      /\ FirstChar(block[i + 1]) = ")"
                      /\ \E j \in (i + 2)..Len(block) :
                            /\ LowerAtom(block[j]) \in markers
                            /\ \A k \in (i + 2)..j : block[k] # NL}
    IN  IF starts = {} THEN <<>> ELSE <<UpperChar(LastChar(block[MinOf(starts)]))>>

\* _extract_correct_answer looking for option markers before answer labels.
extract_correct_answer_markers_first(block, lines) ==
    LET s1 == FirstPatternMatch(block, answer_patterns)
        s2 == {k \in 1..4 : AsteriskMarked(block, AnswerLetters[k])}
        s3 == {n \in 1..Len(lines) : \E k \in 1..4 : OptionLineMarked(lines[n], AnswerLetters[k])}
        s4a == EmphasisMatch(block, {"**", "*"})
        s4b == EmphasisMatch(block, {"(answer)"})
    IN  IF s3 # {} THEN <<lines[MinOf(s3)][1]>>
        ELSE IF s2 # {} THEN <<AnswerLetters[MinOf(s2)]>>
        ELSE IF s1 # <<>> THEN s1
        ELSE IF s4a # <<>> THEN s4a
        ELSE s4b

\* <<>> is None.
extract_correct_answer(block, lines) ==
    LET s1 == FirstPatternMatch(block, answer_patterns)
        s2 == {k \in 1..4 : AsteriskMarked(block, AnswerLetters[k])}
        s3 == {n \in 1..Len(lines) : \E k \in 1..4 : OptionLineMarked(lines[n], AnswerLetters[k])}
        s4a == EmphasisMatch(block, {"**", "*"})
        s4b == EmphasisMatch(block, {"(answer)"})
    IN  IF s1 # <<>> THEN s1
        ELSE IF s2 # {} THEN <<AnswerLetters[MinOf(s2)]>>
        ELSE IF s3 # {} THEN <<lines[MinOf(s3)][1]>>
        ELSE IF s4a # <<>> THEN s4a
        ELSE s4b

\* re.match(r'^[A-Da-d][\)\.]', line)
IsOptionLine(line) ==
    /\ Len(line) >= 2
    /\ line[1] \in UpperLetters \cup LowerLetters
    /\ FirstChar(line[2]) \in {")", "."}

\* 'Answer:' in line
HasAnswerLabel(line) ==
    \E i \in 1..(Len(line) - 1) : line[i] = "Answer" /\ FirstChar(line[i + 1]) = ":"

\* 'Correct Answer:' in line
HasCorrectAnswerLabel(line) ==
    \E i \in 1..(Len(line) - 3) :
        line[i] = "Correct" /\ line[i + 1] = " " /\ line[i + 2] = "Answer"
        /\ FirstChar(line[i + 3]) = ":"

\* <<>> is "".
extract_question_text(lines) ==
    LET first == {n \in 1..Len(lines) :
                     /\ ~IsOptionLine(lines[n])
                     /\ ~HasCorrectAnswerLabel(lines[n])
                     /\ ~HasAnswerLabel(lines[n])
                     /\ LastChar(lines[n][Len(lines[n])]) \in {"?", ":", "."}}
        fallback == {n \in 1..Len(lines) : ~IsOptionLine(lines[n]) /\ ~HasAnswerLabel(lines[n])}
    IN  IF first # {} THEN lines[MinOf(first)]
        ELSE IF fallback # {} THEN lines[MinOf(fallback)]
        ELSE <<>>

\* ^([A-D])[\)\.][\s]*(.+)$ under re.IGNORECASE
MatchesOption(line) == IsOptionLine(line) /\ Len(line) >= 3

\* The options found: a later line of a letter replaces an earlier one.
extract_options(lines) ==
    LET found == {n \in 1..Len(lines) : MatchesOption(lines[n])}
        letters == {UpperChar(lines[n][1]) : n \in found}
        lastLine(L) == CHOOSE n \in found :
                      /\ UpperChar(lines[n][1]) = L
                      /\ \A m \in found : UpperChar(lines[m][1]) = L => m <= n
    IN  [L \in letters |-> StripAtoms(SubSeq(lines[lastLine(L)], 3, Len(lines[lastLine(L)])))]

Placeholder(letter) == <<"Option", " ", letter>>

\* _parse_single_mcq_block that accepts any letter the strategies return.
parse_single_mcq_block_unvalidated(question_num, block) ==
    LET lines == BlockLines(block)
        question_text == extract_question_text(lines)
        found == extract_options(lines)
        correct_answer == extract_correct_answer(block, lines)
    IN  IF question_text = <<>> THEN <<>>
        ELSE << [number |-> question_num, question |-> question_text,
                 options |-> found,
                 correct_answer |-> IF correct_answer = <<>> THEN "" ELSE correct_answer[1]] >>

\* <<>> is None, else the one question.
parse_single_mcq_block(question_num, block) ==
    LET lines == BlockLines(block)
        question_text == extract_question_text(lines)
        found == extract_options(lines)
        options == IF Cardinality(DOMAIN found) < 4
                   THEN [L \in DOMAIN found \cup UpperLetters |->
                            IF L \in DOMAIN found THEN found[L] ELSE Placeholder(L)]
                   ELSE found
        correct_answer == extract_correct_answer(block, lines)
    IN  IF question_text = <<>> THEN <<>>
        ELSE << [number |-> question_num, question |-> question_text, options |-> options,
                 correct_answer |->
                    IF correct_answer = <<>> \/ correct_answer[1] \notin UpperLetters
                    THEN "A" ELSE correct_answer[1]] >>

\* ----------------------------------------- specification: one MCQ block
QuestionLines == { <<>>, <<"text", " ", "text", "?">>, <<"text", " ", "text">> }

OptionMarks == { <<>>, <<" ", "*">>, <<" ", "(correct)">>, <<" ", "(answer)">> }

AnswerLines ==
    { <<>>,
      <<"Correct", " ", "Answer", ":", " ", "B">>,
      <<"Answer", ":", " ", "C">>,
      <<"Answer", ":", " ", "Both">>,
      <<"Correct", ":", " ", "d">>,
      <<"The", " ", "correct", " ", "answer", " ", "is", " ", "D">>,
      <<"answer", " ", "is", " ", "a">>,
      <<"**", "B", "**">>,
      <<"**", "Correct", " ", "Answer", ":", "**", " ", "B">>,
      <<"c", " ", "(correct)">>,
      <<"text">> }

\* The text of the option line of a letter; the marked letter carries mark.
OptionText(L, marked, mark) == <<"text">> \o (IF L = marked THEN mark ELSE <<>>)

OptionLine(L, lower, marked, mark) ==
    (IF lower THEN <<LowerAtom(L), ".">> ELSE <<L, ")">>) \o <<" ">> \o OptionText(L, marked, mark)

\* The lines of a block joined by newlines, the empty ones left out.
RECURSIVE JoinLines(_)
JoinLines(ls) ==
    IF ls = <<>> THEN <<>>
    ELSE IF Head(ls) = <<>> THEN JoinLines(Tail(ls))
    ELSE IF JoinLines(Tail(ls)) = <<>> THEN Head(ls)
    ELSE Head(ls) \o <<NL>> \o JoinLines(Tail(ls))

McqBlock(q, present, lower, marked, mark, a) ==
    JoinLines(<<q>>
              \o [k \in 1..4 |-> IF AnswerLetters[k] \in present
                                 THEN OptionLine(AnswerLetters[k], lower, marked, mark)
                                 ELSE <<>>]
              \o <<a>>)

InitParse ==
    /\ InitStore
    /\ call \in {[op |-> "parse_single_mcq_block", done |-> FALSE, present |-> present,
                  marked |-> marked, mark |-> mark,
                  block |-> McqBlock(q, present, lower, marked, mark, a), out |-> <<>>] :
                 q \in QuestionLines, present \in SUBSET UpperLetters, lower \in BOOLEAN,
                 marked \in {"B"}, mark \in OptionMarks, a \in AnswerLines}

ParseSingleMcqBlock ==
    /\ call.op = "parse_single_mcq_block"
    /\ ~call.done
    /\ call' = [call EXCEPT !.done = TRUE, !.out = parse_single_mcq_block(1, call.block)]
    /\ UNCHANGED store_vars

NextParse == ParseSingleMcqBlock

SpecParse == InitParse /\ [][NextParse]_vars

\* ------------------------------------------------------------ segmentation
\* The end of a run of digits that starts at i.
SkipDigits(s, i) == MinOf({j \in i..(Len(s) + 1) : j = Len(s) + 1 \/ s[j] \notin DigitAtoms})

\* Question\s+(\d+): at index i: the index after the colon, 0 if no match.
QuestionHeaderEnd(s, i) ==
    IF /\ LowerAtom(s[i]) = "question"
       /\ i + 1 <= Len(s) /\ IsWs(s[i + 1])
       /\ SkipWs(s, i + 1) <= Len(s) /\ s[SkipWs(s, i + 1)] \in DigitAtoms
       /\ SkipDigits(s, SkipWs(s, i + 1)) <= Len(s)
       /\ s[SkipDigits(s, SkipWs(s, i + 1))] = ":"
    THEN SkipDigits(s, SkipWs(s, i + 1)) + 1
    ELSE 0

\* (\d+)[\.\)] at index i: the index after the punctuation, 0 if no match.
NumberHeaderEnd(s, i) ==
    IF /\ s[i] \in DigitAtoms
       /\ SkipDigits(s, i) <= Len(s)
       /\ s[SkipDigits(s, i)] \in {".", ")"}
    THEN SkipDigits(s, i) + 1
    ELSE 0

\* re.findall of header\s*(.*?)(?=header|$) from pos on, each body stripped.
\* The end of a header of a kind at index i.
HeaderEnd(kind, s, i) ==
    IF kind = "question" THEN QuestionHeaderEnd(s, i) ELSE NumberHeaderEnd(s, i)

RECURSIVE FindBlocks(_, _, _)
FindBlocks(s, pos, kind) ==
    LET heads == {i \in pos..Len(s) : HeaderEnd(kind, s, i) # 0}
    IN  IF heads = {} THEN <<>>
        ELSE LET from == SkipWs(s, HeaderEnd(kind, s, MinOf(heads)))
                 nexts == {i \in from..Len(s) : HeaderEnd(kind, s, i) # 0}
                 to == IF nexts = {} THEN Len(s) + 1 ELSE MinOf(nexts)
             IN  <<StripAtoms(SubSeq(s, from, to - 1))>> \o FindBlocks(s, to, kind)

\* content.split('\n\n')
RECURSIVE SplitParagraphs(_)
SplitParagraphs(s) ==
    LET at == {j \in 1..(Len(s) - 1) : s[j] = NL /\ s[j + 1] = NL}
    IN  IF at = {} THEN <<s>>
        ELSE <<SubSeq(s, 1, MinOf(at) - 1)>>
             \o SplitParagraphs(SubSeq(s, MinOf(at) + 2, Len(s)))

\* 'A)' in block, for a letter and the closing parenthesis
ContainsPair(block, c, d) ==
    \E i \in 1..(Len(block) - 1) : LastChar(block[i]) = c /\ FirstChar(block[i + 1]) = d

ContainsChar(block, c) == \E i \in 1..Len(block) : block[i] = c

LooksLikeMcq(block) ==
    /\ ContainsPair(block, "A", ")") \/ ContainsPair(block, "a", ")")
    /\ ContainsPair(block, "B", ")") \/ ContainsPair(block, "b", ")")
    /\ ContainsChar(block, "?") \/ ContainsChar(block, ":")

\* _split_into_question_blocks trying the numbered pattern before 'Question N:'.
split_into_question_blocks_numbers_first(content) ==
    LET matches1 == FindBlocks(content, 1, "question")
        matches2 == FindBlocks(content, 1, "number")
        raw == SplitParagraphs(content)
        blocks == SelectSeq([i \in 1..Len(raw) |-> StripAtoms(raw[i])], LAMBDA b : b # <<>>)
    IN  IF matches2 # <<>> THEN matches2
        ELSE IF matches1 # <<>> THEN matches1
        ELSE SelectSeq(blocks, LooksLikeMcq)

split_into_question_blocks(content) ==
    LET matches1 == FindBlocks(content, 1, "question")
        matches2 == FindBlocks(content, 1, "number")
        raw == SplitParagraphs(content)
        blocks == SelectSeq([i \in 1..Len(raw) |-> StripAtoms(raw[i])], LAMBDA b : b # <<>>)
    IN  IF matches1 # <<>> THEN matches1
        ELSE IF matches2 # <<>> THEN matches2
        ELSE SelectSeq(blocks, LooksLikeMcq)

\* The questions of the blocks from the i-th on, numbered by block.
RECURSIVE ParseBlocks(_, _)
ParseBlocks(blocks, i) ==
    IF i > Len(blocks) THEN <<>>
    ELSE parse_single_mcq_block(i, blocks[i]) \o ParseBlocks(blocks, i + 1)

parse_mcq_questions(content) == ParseBlocks(split_into_question_blocks(content), 1)

MsgNoValidQuestions == "No valid questions could be parsed"
ParseResult(ok, msg, data) == [success |-> ok, message |-> msg, data |-> data]

\* parse_quiz_questions that returns whatever list was parsed.
parse_quiz_questions_any_list(quiz_content, quiz_type) ==
    ParseResult(TRUE, "Parsed questions", parse_mcq_questions(quiz_content))

\* QuizService.parse_quiz_questions for quiz_type "MCQ"
parse_quiz_questions(quiz_content, quiz_type) ==
    LET questions == parse_mcq_questions(quiz_content)
    IN  IF questions = <<>>
        THEN ParseResult(FALSE, MsgNoValidQuestions, <<>>)
        ELSE ParseResult(TRUE, "Parsed questions", questions)

\* ------------------------------------- specification: parsing a whole quiz
MaxBlocks == 2

\* A question with four options and an answer line; option lines only; the
\* empty body; a question alone; options and an answer line; a question
\* without closing punctuation before its options.
BlockBodies ==
    { McqBlock(<<"text", " ", "text", "?">>, UpperLetters, FALSE, "", <<>>, <<"Answer", ":", " ", "C">>),
      McqBlock(<<>>, {"A", "B"}, FALSE, "", <<>>, <<>>),
      <<>>,
      <<"text", " ", "text", "?">>,
      McqBlock(<<>>, {"A", "B"}, FALSE, "", <<>>, <<"Answer", ":", " ", "C">>),
      McqBlock(<<"text", " ", "text">>, {"A", "B"}, FALSE, "", <<>>, <<>>) }

HeaderStyles == {"question", "number", "blank"}

Digit(k) == IF k = 1 THEN "1" ELSE IF k = 2 THEN "2" ELSE "3"

\* The text of the k-th block of a quiz in a header style.
Segment(style, k, body) ==
    CASE style = "question" -> <<"Question", " ", Digit(k), ":", " ">> \o body \o <<NL, NL>>
      [] style = "number" -> <<Digit(k), ".", " ">> \o body \o <<NL, NL>>
      [] OTHER -> body \o <<NL, NL>>

RECURSIVE QuizContent(_, _, _)
QuizContent(style, bodies, k) ==
    IF k > Len(bodies) THEN <<>>
    ELSE Segment(style, k, bodies[k]) \o QuizContent(style, bodies, k + 1)

QuizContents ==
    {pre \o QuizContent(style, bodies, 1) :
        pre \in {<<>>, <<"text", NL, NL>>}, style \in HeaderStyles,
        bodies \in UNION {[1..n -> BlockBodies] : n \in 0..MaxBlocks}}

InitParseQuiz ==
    /\ InitStore
    /\ call \in {[op |-> "parse_quiz_questions", done |-> FALSE, quiz_content |-> c,
                  quiz_type |-> "MCQ", out |-> ParseResult(FALSE, "", <<>>)] :
                 c \in QuizContents}

ParseQuizQuestions ==
    /\ call.op = "parse_quiz_questions"
    /\ ~call.done
    /\ call' = [call EXCEPT !.done = TRUE,
                            !.out = parse_quiz_questions(call.quiz_content, call.quiz_type)]
    /\ UNCHANGED store_vars

NextParseQuiz == ParseQuizQuestions

SpecParseQuiz == InitParseQuiz /\ [][NextParseQuiz]_vars

\* ---------------------------------------------------------- answer checking
\* A question is [number, correct_answer]; an answer map is a function from
\* the numbers of the answered questions to letters.
MsgAnswerAtLeastOne == "Please answer at least one question"
MsgFailedToCheck == "Failed to check answers"
MsgNoAnswersToCheck == "No answers to check."

\* user_answers.get(q_num) == question['correct_answer'], counted
CorrectCount(questions, user_answers) ==
    Cardinality({i \in 1..Len(questions) :
                    /\ questions[i].number \in DOMAIN user_answers
                    /\ user_answers[questions[i].number] = questions[i].correct_answer})

\* The message for correct of total: percentage = (correct / total) * 100
\* compared with 90, 80, 70 and 60.
Band(correct, total) ==
    IF 100 * correct >= 90 * total THEN "Excellent work!"
    ELSE IF 100 * correct >= 80 * total THEN "Great job!"
    ELSE IF 100 * correct >= 70 * total THEN "Good effort!"
    ELSE IF 100 * correct >= 60 * total THEN "Not bad!"
    ELSE "Keep studying!"

\* round((correct / total) * 100, 1) in tenths of a percent: the nearest
\* tenth; where two tenths are equally near, the one the floating-point
\* value happens to lie closer to, which is either.
Rounded(correct, total) ==
    {p \in {(1000 * correct) \div total, (1000 * correct) \div total + 1} :
        /\ 2 * (1000 * correct - p * total) <= total
        /\ 2 * (p * total - 1000 * correct) <= total}

\* The band of the rounded percentage.
text_check_mcq_answers_rounded(user_answers, questions) ==
    IF DOMAIN user_answers = {} \/ questions = <<>> THEN MsgNoAnswersToCheck
    ELSE LET p == CHOOSE r \in Rounded(CorrectCount(questions, user_answers), Len(questions)) :
                     \A o \in Rounded(CorrectCount(questions, user_answers), Len(questions)) : r <= o
         IN  Band(p, 1000)

\* TextProcessor.check_mcq_answers: the message of the feedback text
text_check_mcq_answers(user_answers, questions) ==
    IF DOMAIN user_answers = {} \/ questions = <<>> THEN MsgNoAnswersToCheck
    ELSE Band(CorrectCount(questions, user_answers), Len(questions))

NoScore == [correct_count |-> 0, total_questions |-> 0, percentage |-> 0, feedback |-> ""]
CheckResult(ok, msg, data) == [success |-> ok, message |-> msg, data |-> data]

\* check_mcq_answers with the questions left unanswered out of the total.
check_mcq_answers_answered_only(questions, user_answers, percentage) ==
    IF DOMAIN user_answers = {} THEN CheckResult(FALSE, MsgAnswerAtLeastOne, NoScore)
    ELSE IF questions = <<>> THEN CheckResult(FALSE, MsgFailedToCheck, NoScore)
    ELSE CheckResult(TRUE, "Quiz completed",
                     [correct_count |-> CorrectCount(questions, user_answers),
                      total_questions |-> Cardinality(DOMAIN user_answers),
                      percentage |-> percentage,
                      feedback |-> text_check_mcq_answers(user_answers, questions)])

\* QuizService.check_mcq_answers; percentage is the outcome of round, in
\* tenths. An empty question list divides by zero, which the handler turns
\* into an error.
check_mcq_answers(questions, user_answers, percentage) ==
    IF DOMAIN user_answers = {} THEN CheckResult(FALSE, MsgAnswerAtLeastOne, NoScore)
    ELSE IF questions = <<>> THEN CheckResult(FALSE, MsgFailedToCheck, NoScore)
    ELSE CheckResult(TRUE, "Quiz completed",
                     [correct_count |-> CorrectCount(questions, user_answers),
                      total_questions |-> Len(questions),
                      percentage |-> percentage,
                      feedback |-> text_check_mcq_answers(user_answers, questions)])

\* ------------------------------------- specification: checking the answers
MaxCheckQuestions == 3
CheckLetters == {"A", "B"}

CheckQuestions ==
    UNION {{[i \in 1..n |-> [number |-> i, correct_answer |-> f[i]]] : f \in [1..n -> CheckLetters]} :
           n \in 0..MaxCheckQuestions}

\* The answer maps over the ordinals of n questions.
AnswerMaps(n) == UNION {[S -> CheckLetters] : S \in SUBSET (1..n)}

InitCheck ==
    /\ InitStore
    /\ call \in {[op |-> "check_mcq_answers", done |-> FALSE, questions |-> qs,
                  user_answers |-> ua, out |-> CheckResult(FALSE, "", NoScore)] :
                 qs \in CheckQuestions, ua \in AnswerMaps(MaxCheckQuestions)}

CheckMcqAnswers ==
    /\ call.op = "check_mcq_answers"
    /\ ~call.done
    /\ \E p \in IF call.questions = <<>> THEN {0}
                ELSE Rounded(CorrectCount(call.questions, call.user_answers), Len(call.questions)) :
          call' = [call EXCEPT !.done = TRUE,
                               !.out = check_mcq_answers(call.questions, call.user_answers, p)]
    /\ UNCHANGED store_vars

NextCheck == CheckMcqAnswers

SpecCheck == InitCheck /\ [][NextCheck]_vars

\* ------------------------------------------ specification: the score bands
MaxBandQuestions == 203

\* total questions with correct answer A, the first correct of them answered
\* A; with none correct, the first answered B.
BandQuestions(total) == [i \in 1..total |-> [number |-> i, correct_answer |-> "A"]]
BandAnswers(correct) == IF correct = 0 THEN [i \in {1} |-> "B"] ELSE [i \in 1..correct |-> "A"]

InitBand ==
    /\ InitStore
    /\ \E t \in 1..MaxBandQuestions, c \in 0..MaxBandQuestions :
          /\ c <= t
          /\ call = [op |-> "check_mcq_answers", done |-> FALSE, questions |-> BandQuestions(t),
                     user_answers |-> BandAnswers(c), out |-> CheckResult(FALSE, "", NoScore)]

NextBand == CheckMcqAnswers

SpecBand == InitBand /\ [][NextBand]_vars

\* ------------------------------------------------- tutoring prompt selection
\* An utterance is the sequence of its words, separated by single spaces.
\* What the patterns see of a word is whether it starts with, ends with or
\* contains a piece of a pattern.
LowerWord(w) == IF w = "What" THEN "what" ELSE IF w = "B" THEN "b" ELSE w

\* user_text.lower()
LowerWords(u) == [i \in 1..Len(u) |-> LowerWord(u[i])]

HasPrefix(w, p) ==
    \/ w = p
    \/ <<w, p>> \in {<<"whats", "what">>, <<"answers", "answer">>, <<"about", "a">>,
                     <<"answer", "a">>, <<"answers", "a">>, <<"am", "a">>, <<"because", "b">>}

HasSuffix(w, p) == w = p \/ <<w, p>> \in {<<"this", "is">>}

HasSub(w, p) == HasPrefix(w, p) \/ HasSuffix(w, p)

\* Pattern items: \bword followed by a space, a letter a-d between spaces,
\* the start of a word, and .* followed by a piece anywhere later.
W(w) == [k |-> "word", v |-> w]
P(p) == [k |-> "prefix", v |-> p]
Later(p) == [k |-> "later", v |-> p]
Letter == [k |-> "letter", v |-> ""]

RECURSIVE MatchWords(_, _, _)
MatchWords(u, i, pat) ==
    IF pat = <<>> THEN TRUE
    ELSE LET it == Head(pat)
         IN  CASE it.k = "later" ->
                    \E j \in i..Len(u) : HasSub(u[j], it.v) /\ MatchWords(u, j + 1, Tail(pat))
               [] it.k = "word" ->
                    i <= Len(u) /\ u[i] = it.v /\ MatchWords(u, i + 1, Tail(pat))
               [] it.k = "prefix" ->
                    i <= Len(u) /\ HasPrefix(u[i], it.v) /\ MatchWords(u, i + 1, Tail(pat))
               [] it.k = "letter" ->
                    i <= Len(u) /\ u[i] \in LowerLetters /\ MatchWords(u, i + 1, Tail(pat))

\* any(re.search(pattern, text) for pattern in patterns)
SearchAny(u, patterns) ==
    \E n \in 1..Len(patterns) : \E i \in 1..Len(u) : MatchWords(u, i, patterns[n])

\* QuizDisplay._is_asking_for_direct_answer
chat_direct_answer_patterns ==
    << <<W("is"), Letter, P("correct")>>,
       <<P("what"), Later("answer")>>,
       <<P("which"), Later("correct")>>,
       <<P("what"), Later("right")>>,
       <<W("tell"), P("me"), Later("answer")>>,
       <<P("what"), Later("letter")>>,
       <<W("should"), W("i"), P("choose")>> >>

\* VoiceService._is_asking_for_direct_answer
voice_direct_answer_patterns ==
    chat_direct_answer_patterns
    \o << <<W("give"), P("me"), Later("answer")>>,
          <<P("whats"), Later("answer")>>,
          <<W("what"), P("is"), Later("answer")>> >>

is_asking_for_direct_answer(user_text, patterns) == SearchAny(LowerWords(user_text), patterns)

\* pattern in user_lower, for a phrase of words
ContainsPhrase(u, phrase) ==
    \E i \in 1..Len(u) :
        IF Len(phrase) = 1 THEN HasSub(u[i], phrase[1])
        ELSE /\ i + Len(phrase) - 1 <= Len(u)
             /\ HasSuffix(u[i], phrase[1])
             /\ \A k \in 2..(Len(phrase) - 1) : u[i + k - 1] = phrase[k]
             /\ HasPrefix(u[i + Len(phrase) - 1], phrase[Len(phrase)])

ContainsAnyPhrase(u, phrases) == \E ph \in phrases : ContainsPhrase(u, ph)

direct_patterns ==
    { <<"what", "is", "the", "answer">>, <<"which", "option">>, <<"is", "it", "a">>,
      <<"is", "it", "b">>, <<"tell", "me", "the", "answer">>, <<"correct", "answer">> }

concept_patterns ==
    { <<"explain">>, <<"what", "does">>, <<"what", "is">>, <<"how", "does">>, <<"why", "is">>,
      <<"define">>, <<"what", "means">> }

help_patterns ==
    { <<"help">>, <<"stuck">>, <<"don't", "understand">>, <<"confused">>,
      <<"how", "to", "solve">>, <<"hint">>, <<"guide", "me">> }

\* _classify_voice_question with the help patterns tested first.
classify_voice_question_help_first(user_text) ==
    LET user_lower == LowerWords(user_text)
    IN  IF ContainsAnyPhrase(user_lower, help_patterns) THEN "help_request"
        ELSE IF ContainsAnyPhrase(user_lower, direct_patterns) THEN "direct_answer_request"
        ELSE IF ContainsAnyPhrase(user_lower, concept_patterns) THEN "concept_explanation"
        ELSE "general"

\* _classify_voice_question with the concept patterns tested first.
classify_voice_question_concept_first(user_text) ==
    LET user_lower == LowerWords(user_text)
    IN  IF ContainsAnyPhrase(user_lower, concept_patterns) THEN "concept_explanation"
        ELSE IF ContainsAnyPhrase(user_lower, direct_patterns) THEN "direct_answer_request"
        ELSE IF ContainsAnyPhrase(user_lower, help_patterns) THEN "help_request"
        ELSE "general"

\* VoiceInterface._classify_voice_question
classify_voice_question(user_text) ==
    LET user_lower == LowerWords(user_text)
    IN  IF ContainsAnyPhrase(user_lower, direct_patterns) THEN "direct_answer_request"
        ELSE IF ContainsAnyPhrase(user_lower, concept_patterns) THEN "concept_explanation"
        ELSE IF ContainsAnyPhrase(user_lower, help_patterns) THEN "help_request"
        ELSE "general"

\* A prompt sent to chat_with_pdf: the template filled, the utterance and
\* the texts taken from the quiz.
NoPrompt == [variant |-> "none", user_text |-> <<>>, quiz_texts |-> {}]
Prompt(variant, user_text, quiz_texts) ==
    [variant |-> variant, user_text |-> user_text, quiz_texts |-> quiz_texts]

MaxOf(S) == CHOOSE m \in S : \A k \in S : k <= m

\* VoiceService._create_minimal_quiz_context: the texts of the context (the
\* three counts and the completed flag are numbers and a boolean)
create_minimal_quiz_context(quiz_questions, quiz_type, quiz_answers, quiz_completed) ==
    {quiz_type}
    \cup IF DOMAIN quiz_answers # {} /\ ~quiz_completed /\ quiz_questions # <<>>
            /\ MaxOf(DOMAIN quiz_answers) <= Len(quiz_questions)
         THEN LET found == {i \in 1..Len(quiz_questions) :
                               quiz_questions[i].number = MaxOf(DOMAIN quiz_answers)}
              IN  IF found = {} THEN {} ELSE {quiz_questions[MinOf(found)].question}
         ELSE {}

\* QuizDisplay._create_quiz_context_for_voice, as read by
\* _create_enhanced_quiz_voice_prompt
create_quiz_context_for_voice(questions, quiz_type, quiz_answers) ==
    {quiz_type, "Medium"}
    \cup IF Cardinality(DOMAIN quiz_answers) < Len(questions)
         THEN LET found == {i \in 1..Len(questions) :
                               questions[i].number = Cardinality(DOMAIN quiz_answers) + 1}
              IN  IF found = {} THEN {} ELSE {questions[MinOf(found)].question}
         ELSE {}

TutorResult(ok, msg, response, prompt) ==
    [success |-> ok, message |-> msg, response |-> response, prompt |-> prompt]

\* VoiceService.get_voice_response; chat is the outcome of chat_with_pdf.
get_voice_response(available, user_text, quiz_questions, quiz_type, quiz_answers, quiz_completed, chat) ==
    IF ~available THEN TutorResult(FALSE, "Voice service not available", "fallback", NoPrompt)
    ELSE LET quiz_context == create_minimal_quiz_context(quiz_questions, quiz_type,
                                                         quiz_answers, quiz_completed)
             is_asking_for_answer ==
                 is_asking_for_direct_answer(user_text, voice_direct_answer_patterns)
             prompt == IF is_asking_for_answer /\ ~quiz_completed
                       THEN Prompt("hint", user_text, quiz_context)
                       ELSE Prompt("normal", user_text, quiz_context)
         IN  CASE chat = "ok" -> TutorResult(TRUE, "Voice response generated", "answer", prompt)
               [] chat = "fail" -> TutorResult(TRUE, "Fallback response", "fallback", prompt)
               [] OTHER -> TutorResult(TRUE, "Error fallback", "fallback", prompt)

\* VoiceInterface._handle_voice_message_enhanced
handle_voice_message_enhanced(user_text, questions, quiz_type, quiz_answers, quiz_completed, chat) ==
    LET question_type == classify_voice_question(user_text)
        prompt ==
            CASE question_type = "direct_answer_request" ->
                    IF ~quiz_completed THEN Prompt("hint", user_text, {})
                    ELSE Prompt("explain_correct", user_text, {})
              [] question_type = "concept_explanation" -> Prompt("concept", user_text, {})
              [] question_type = "help_request" -> Prompt("help", user_text, {})
              [] OTHER -> Prompt("general", user_text,
                                 create_quiz_context_for_voice(questions, quiz_type, quiz_answers))
    IN  CASE chat = "ok" -> TutorResult(TRUE, "", "answer", prompt)
          [] chat = "fail" -> TutorResult(TRUE, "", "fallback", prompt)
          [] OTHER -> TutorResult(TRUE, "", "fallback", prompt)

\* QuizDisplay._handle_quiz_chat_message; an exception of chat_with_pdf is
\* not handled here.
handle_quiz_chat_message(message, questions, quiz_type, quiz_completed, chat) ==
    LET is_asking_for_answer == is_asking_for_direct_answer(message, chat_direct_answer_patterns)
        smart_prompt == IF is_asking_for_answer /\ ~quiz_completed
                        THEN Prompt("hint", message, {})
                        ELSE Prompt("raw", message, {})
    IN  CASE chat = "ok" -> TutorResult(TRUE, "", "answer", smart_prompt)
          [] chat = "fail" -> TutorResult(TRUE, "", "fallback", smart_prompt)
          [] OTHER -> TutorResult(FALSE, "raised", "", smart_prompt)

\* ------------------------------------------ specification: tutoring prompts
Utterances ==
    { <<"What", "is", "the", "answer">>, <<"is", "b", "correct">>, <<"is", "B", "correct">>,
      <<"give", "me", "the", "answer">>, <<"is", "it", "b">>, <<"is", "it", "about", "plants">>,
      <<"should", "i", "choose", "a">>, <<"tell", "me", "the", "right", "answer">>,
      <<"which", "option", "is", "right">>, <<"which", "is", "correct">>, <<"what", "letter">>,
      <<"whats", "the", "answer">>, <<"the", "correct", "answer", "please">>,
      <<"what", "is", "osmosis">>, <<"explain", "osmosis">>, <<"i", "am", "stuck">>,
      <<"give", "me", "a", "hint">>, <<"hello">> }

TutorQuestions ==
    << [number |-> 1, question |-> "first question?", correct_answer |-> "B"],
       [number |-> 2, question |-> "second question?", correct_answer |-> "D"] >>

TutorAnswers == { <<>>, <<"A">>, <<"B", "D">> }

TutorPaths == {"get_voice_response", "handle_voice_message_enhanced", "handle_quiz_chat_message"}

InitTutor ==
    /\ InitStore
    /\ call \in {[op |-> path, done |-> FALSE, user_text |-> u, quiz_answers |-> a,
                  quiz_completed |-> c, available |-> v, chat |-> chat,
                  out |-> TutorResult(FALSE, "", "", NoPrompt)] :
                 path \in TutorPaths, u \in Utterances, a \in TutorAnswers, c \in BOOLEAN,
                 v \in BOOLEAN, chat \in {"ok", "fail", "raise"}}

GetVoiceResponse ==
    /\ call.op = "get_voice_response"
    /\ ~call.done
    /\ call' = [call EXCEPT !.done = TRUE,
                            !.out = get_voice_response(call.available, call.user_text,
                                                       TutorQuestions, "MCQ", call.quiz_answers,
                                                       call.quiz_completed, call.chat)]
    /\ UNCHANGED store_vars

HandleVoiceMessageEnhanced ==
    /\ call.op = "handle_voice_message_enhanced"
    /\ ~call.done
    /\ call' = [call EXCEPT !.done = TRUE,
                            !.out = handle_voice_message_enhanced(call.user_text, TutorQuestions,
                                                                  "MCQ", call.quiz_answers,
                                                                  call.quiz_completed, call.chat)]
    /\ UNCHANGED store_vars

HandleQuizChatMessage ==
    /\ call.op = "handle_quiz_chat_message"
    /\ ~call.done
    /\ call' = [call EXCEPT !.done = TRUE,
                            !.out = handle_quiz_chat_message(call.user_text, TutorQuestions, "MCQ",
                                                             call.quiz_completed, call.chat)]
    /\ UNCHANGED store_vars

NextTutor == GetVoiceResponse \/ HandleVoiceMessageEnhanced \/ HandleQuizChatMessage

SpecTutor == InitTutor /\ [][NextTutor]_vars

\* ------------------------------------------------- exceptions in the services
\* A service operation as the sequence of the calls it makes that can raise:
\* what is called, which resource raises, and what the handler around the
\* call does with the exception: "error" returns an error response,
\* "continue" logs it and goes on.
Step(c, resource, on_raise) == [call |-> c, resource |-> resource, on_raise |-> on_raise]

ServiceOps ==
    {"chat_with_pdf", "generate_quiz", "parse_quiz_questions", "check_mcq_answers", "upload_pdf",
     "delete_pdf", "create_pdf_vectors", "search_pdf_vectors", "delete_pdf_vectors", "save_quiz"}

ServiceSteps(op) ==
    CASE op = "chat_with_pdf" ->
            << Step("get_pdf_by_id", "database", "error"),
               Step("search_pdf_vectors", "vector store", "error"),
               Step("chain.invoke", "model", "error") >>
      [] op = "generate_quiz" ->
            << Step("get_pdf_by_id", "database", "error"),
               Step("search_pdf_vectors", "vector store", "error"),
               Step("chain.invoke", "model", "error") >>
      [] op = "parse_quiz_questions" -> << >>
      [] op = "check_mcq_answers" ->
            << Step("correct_count / total_questions", "arithmetic", "error") >>
      [] op = "upload_pdf" ->
            << Step("save_uploaded_file", "file system", "error"),
               Step("get_file_size", "file system", "continue"),
               Step("insert_one", "database", "error"),
               Step("getsize", "file system", "error"),
               Step("extract_text_from_pdf", "file system", "error"),
               Step("create_pdf_vectors", "vector store", "error"),
               Step("update_one", "database", "error") >>
      [] op = "delete_pdf" ->
            << Step("get_pdf_by_id", "database", "error"),
               Step("delete_pdf_file", "file system", "continue"),
               Step("delete_pdf_vectors", "file system", "continue"),
               Step("delete_one", "database", "error") >>
      [] op = "create_pdf_vectors" ->
            << Step("FAISS.from_documents", "vector store", "error"),
               Step("save_local", "file system", "error") >>
      [] op = "search_pdf_vectors" ->
            << Step("FAISS.load_local", "file system", "error"),
               Step("similarity_search", "vector store", "error") >>
      [] op = "delete_pdf_vectors" ->
            << Step("_get_vector_path", "file system", "error") >>
      [] OTHER ->
            << Step("find_one", "database", "error"),
               Step("insert_one", "database", "error") >>

ServiceOutcome(raised, ok, at) == [raised |-> raised, success |-> ok, at |-> at]

\* The operation without its outermost handler.
service_call_unhandled(op, faults) ==
    LET steps == ServiceSteps(op)
        failing == {i \in 1..Len(steps) : i \in faults /\ steps[i].on_raise = "error"}
    IN  IF failing # {} THEN ServiceOutcome(TRUE, FALSE, MinOf(failing))
        ELSE ServiceOutcome(FALSE, TRUE, 0)

\* The outcome of the operation, on arguments it would otherwise serve,
\* when the calls in faults raise: the first raising call whose handler
\* returns an error ends it.
service_call(op, faults) ==
    LET steps == ServiceSteps(op)
        failing == {i \in 1..Len(steps) : i \in faults /\ steps[i].on_raise = "error"}
    IN  IF failing # {} THEN ServiceOutcome(FALSE, FALSE, MinOf(failing))
        ELSE ServiceOutcome(FALSE, TRUE, 0)

\* -------------------------------------- specification: exceptions handled
InitRaise ==
    /\ InitStore
    /\ \E op \in ServiceOps :
          call \in {[op |-> op, done |-> FALSE, faults |-> fs,
                     out |-> ServiceOutcome(FALSE, FALSE, 0)] :
                    fs \in SUBSET (1..Len(ServiceSteps(op)))}

ServiceCall ==
    /\ call.op \in ServiceOps
    /\ ~call.done
    /\ call' = [call EXCEPT !.done = TRUE, !.out = service_call(call.op, call.faults)]
    /\ UNCHANGED store_vars

NextRaise == ServiceCall

SpecRaise == InitRaise /\ [][NextRaise]_vars

\* ------------------------------------------------------ remote speech service
\* The outcome of one HTTP request to the speech service: a status 200 with
\* a body, another status, or an exception of the transport.
HttpErrorStatuses == {404, 500, 502, 503}
TransportFailures == {"timeout", "connection error"}

Http(outcome, status) == [outcome |-> outcome, status |-> status]
NoRequest == Http("none", 0)

HealthResponses ==
    {Http(o, 200) : o \in {"loaded", "not loaded", "bad json"}}
    \cup {Http("error", s) : s \in HttpErrorStatuses}
    \cup {Http(o, 0) : o \in TransportFailures \cup {"error raised"}}

PostResponses ==
    {Http(o, 200) : o \in {"success", "failure", "bad json"}}
    \cup {Http("error", s) : s \in HttpErrorStatuses}
    \cup {Http(o, 0) : o \in TransportFailures \cup {"error raised"}}

\* check_voice_service_available caching only a positive answer.
check_voice_service_available_positive_only(cached, health) ==
    IF cached = "True" THEN [value |-> TRUE, cached |-> cached, requested |-> FALSE]
    ELSE IF health.status = 200 /\ health.outcome = "loaded"
         THEN [value |-> TRUE, cached |-> "True", requested |-> TRUE]
         ELSE [value |-> FALSE, cached |-> "False", requested |-> TRUE]

\* check_voice_service_available: the value returned and the value cached.
\* cached is "None", "True" or "False"; with a cached value no request is
\* made.
check_voice_service_available(cached, health) ==
    IF cached # "None" THEN [value |-> cached = "True", cached |-> cached, requested |-> FALSE]
    ELSE IF health.status = 200 /\ health.outcome = "loaded"
         THEN [value |-> TRUE, cached |-> "True", requested |-> TRUE]
         ELSE [value |-> FALSE, cached |-> "False", requested |-> TRUE]

VoiceResult(raised, ok, msg) == [raised |-> raised, success |-> ok, message |-> msg]

\* The response to the POST of an available service; what names the call
\* in the messages.
PostResult(post, failed, error, timeout) ==
    CASE post.status = 200 /\ post.outcome = "success" -> VoiceResult(FALSE, TRUE, "successful")
      [] post.status = 200 /\ post.outcome = "failure" -> VoiceResult(FALSE, FALSE, failed)
      [] post.outcome = "error" -> VoiceResult(FALSE, FALSE, "Voice service error: HTTP")
      [] post.outcome = "timeout" -> VoiceResult(FALSE, FALSE, timeout)
      [] post.outcome = "connection error" -> VoiceResult(FALSE, FALSE, "Voice service not reachable")
      [] OTHER -> VoiceResult(FALSE, FALSE, error)

\* transcribe_audio_via_voicemode without its handlers.
transcribe_audio_via_voicemode_unhandled(available, post) ==
    IF ~available THEN VoiceResult(FALSE, FALSE, "Voice service not available")
    ELSE IF post.status = 0 \/ post.outcome = "bad json" THEN VoiceResult(TRUE, FALSE, "")
    ELSE PostResult(post, "Transcription failed", "Transcription error",
                    "Voice service timeout - try shorter audio")

transcribe_audio_via_voicemode(available, post) ==
    IF ~available THEN VoiceResult(FALSE, FALSE, "Voice service not available")
    ELSE PostResult(post, "Transcription failed", "Transcription error",
                    "Voice service timeout - try shorter audio")

SynthesisTextLimit == 200

\* The text sent: text[:200] + "..." for a text over 200 characters.
SynthesisTextLength(text_length) ==
    IF text_length > SynthesisTextLimit THEN SynthesisTextLimit + 3 ELSE text_length

synthesize_speech_via_voicemode(available, post) ==
    IF ~available THEN VoiceResult(FALSE, FALSE, "Voice service not available")
    ELSE PostResult(post, "Speech synthesis failed", "Speech synthesis error",
                    "Voice service timeout")

\* ------------------------------------------ specification: speech service
\* The service object: the cached availability, and the last call with the
\* requests it made and what it returned.
TextLengths == {10, SynthesisTextLimit, SynthesisTextLimit + 1}

VoiceState(op, cached, health, post, sent, out) ==
    [op |-> op, done |-> TRUE, cached |-> cached, health |-> health, post |-> post,
     sent |-> sent, out |-> out]

InitVoice ==
    /\ InitStore
    /\ call = VoiceState("VoiceService", "None", NoRequest, NoRequest, 0,
                         VoiceResult(FALSE, FALSE, ""))

VoiceOps == {"VoiceService", "check_voice_service_available", "transcribe_audio_via_voicemode",
             "synthesize_speech_via_voicemode", "clear_voice_cache"}

CheckVoiceServiceAvailable ==
    /\ call.op \in VoiceOps
    /\ \E health \in HealthResponses :
          LET r == check_voice_service_available(call.cached, health)
          IN  call' = VoiceState("check_voice_service_available", r.cached,
                                 IF r.requested THEN health ELSE NoRequest, NoRequest, 0,
                                 VoiceResult(FALSE, r.value, ""))
    /\ UNCHANGED store_vars

TranscribeAudio ==
    /\ call.op \in VoiceOps
    /\ \E health \in HealthResponses, post \in PostResponses :
          LET r == check_voice_service_available(call.cached, health)
          IN  call' = VoiceState("transcribe_audio_via_voicemode", r.cached,
                                 IF r.requested THEN health ELSE NoRequest,
                                 IF r.value THEN post ELSE NoRequest, 0,
                                 transcribe_audio_via_voicemode(r.value, post))
    /\ UNCHANGED store_vars

SynthesizeSpeech ==
    /\ call.op \in VoiceOps
    /\ \E health \in HealthResponses, post \in PostResponses, n \in TextLengths :
          LET r == check_voice_service_available(call.cached, health)
          IN  call' = VoiceState("synthesize_speech_via_voicemode", r.cached,
                                 IF r.requested THEN health ELSE NoRequest,
                                 IF r.value THEN post ELSE NoRequest,
                                 IF r.value THEN SynthesisTextLength(n) ELSE 0,
                                 synthesize_speech_via_voicemode(r.value, post))
    /\ UNCHANGED store_vars

ClearVoiceCache ==
    /\ call.op \in VoiceOps
    /\ call' = VoiceState("clear_voice_cache", "None", NoRequest, NoRequest, 0,
                          VoiceResult(FALSE, FALSE, ""))
    /\ UNCHANGED store_vars

NextVoice == CheckVoiceServiceAvailable \/ TranscribeAudio \/ SynthesizeSpeech \/ ClearVoiceCache

SpecVoice == InitVoice /\ [][NextVoice]_vars

\* --------------------------------------- specification: names on writes
\* The stores a call finds: folders of two users and quizzes of one user in
\* two folders.
FolderNameArgs == {"", " ", "Maths", " Maths ", "Physics"}
QuizNameArgs == {"", " ", "n1", "n2"}

Folder(id, u, name) == [id |-> id, user_id |-> u, name |-> name]
SavedQuiz(id, f, name) ==
    [id |-> id, user_id |-> "u1", folder_id |-> f, pdf_id |-> 1, quiz_name |-> name]

FolderStores ==
    { {}, {Folder("f1", "u1", "Maths")},
      {Folder("f1", "u1", "Maths"), Folder("f2", "u1", "Physics")},
      {Folder("f1", "u1", "Maths"), Folder("f2", "u2", "Maths")} }

QuizStores ==
    { {}, {SavedQuiz(1, "f1", "n1")},
      {SavedQuiz(1, "f1", "n1"), SavedQuiz(2, "f1", "n2")},
      {SavedQuiz(1, "f1", "n1"), SavedQuiz(2, "f2", "n1")} }

NameOps == {"create_folder", "update_folder_name", "save_quiz", "update_quiz_name"}

\* The _id the database gives to a new folder.
NewFolderId == "f3"

InitNames ==
    /\ pdfs = {}
    /\ nextPdf = 0
    /\ files = {}
    /\ vectors = NoVectors
    /\ history = [pr \in Users \X PdfIds |-> "never"]
    /\ folders \in FolderStores
    /\ usedFolders = {r.id : r \in folders}
    /\ quizzes \in QuizStores
    /\ nextQuiz = Cardinality(quizzes)
    /\ last = NoLast
    /\ \E op \in NameOps :
          call \in {[op |-> op, done |-> FALSE, user |-> u, folder |-> f, quiz |-> q,
                     name |-> n, folders_before |-> folders, quizzes_before |-> quizzes,
                     out |-> ServiceResponse(FALSE, "")] :
                    u \in Users, f \in FolderIds, q \in 1..MaxQuizzes,
                    n \in IF op \in {"create_folder", "update_folder_name"}
                          THEN FolderNameArgs ELSE QuizNameArgs}

names_unchanged == <<pdfs, nextPdf, files, vectors, history, last>>

CreateFolderNamed ==
    /\ call.op = "create_folder"
    /\ ~call.done
    /\ LET r == create_folder(folders, NewFolderId, call.user, call.name)
       IN  /\ folders' = r.folders
           /\ usedFolders' = {x.id : x \in r.folders}
           /\ call' = [call EXCEPT !.done = TRUE, !.out = r.resp]
    /\ UNCHANGED <<names_unchanged, quizzes, nextQuiz>>

UpdateFolderName ==
    /\ call.op = "update_folder_name"
    /\ ~call.done
    /\ LET r == update_folder_name(folders, call.folder, call.user, call.name)
       IN  /\ folders' = r.folders
           /\ call' = [call EXCEPT !.done = TRUE, !.out = r.resp]
    /\ UNCHANGED <<names_unchanged, usedFolders, quizzes, nextQuiz>>

SaveQuizNamed ==
    /\ call.op = "save_quiz"
    /\ ~call.done
    /\ LET r == save_quiz(quizzes, nextQuiz + 1, call.user, call.folder, 1, call.name)
       IN  /\ quizzes' = r.quizzes
           /\ nextQuiz' = IF r.resp.success THEN nextQuiz + 1 ELSE nextQuiz
           /\ call' = [call EXCEPT !.done = TRUE, !.out = r.resp]
    /\ UNCHANGED <<names_unchanged, folders, usedFolders>>

UpdateQuizNameNamed ==
    /\ call.op = "update_quiz_name"
    /\ ~call.done
    /\ LET r == update_quiz_name(quizzes, call.quiz, call.user, call.name)
       IN  /\ quizzes' = r.quizzes
           /\ call' = [call EXCEPT !.done = TRUE, !.out = r.resp]
    /\ UNCHANGED <<names_unchanged, folders, usedFolders, nextQuiz>>

NextNames == CreateFolderNamed \/ UpdateFolderName \/ SaveQuizNamed \/ UpdateQuizNameNamed

SpecNames == InitNames /\ [][NextNames]_vars

\* ------------------------------------- specification: processing an upload
\* File sizes in MB around the two limits.
ProcessSizesMB ==
    {1, ProcessSizeLimitMB - 1, ProcessSizeLimitMB, ProcessSizeLimitMB + 1,
     ExtractSizeLimitMB - 1, ExtractSizeLimitMB, ExtractSizeLimitMB + 1}

InitProcess ==
    /\ InitStore
    /\ call \in {[op |-> "process_pdf_content", done |-> FALSE, size |-> size,
                  extract |-> extract, ndocs |-> ndocs, embedOk |-> embedOk,
                  out |-> ServiceResponse(FALSE, "")] :
                 size \in ProcessSizesMB, extract \in {"ok", "error"}, ndocs \in 0..MaxChunks,
                 embedOk \in BOOLEAN}

ProcessPdfContent ==
    /\ call.op = "process_pdf_content"
    /\ ~call.done
    /\ LET r == process_pdf_content(vectors, 1, "u1", call.size, call.extract, call.ndocs,
                                    call.embedOk)
       IN  /\ vectors' = r.vectors
           /\ call' = [call EXCEPT !.done = TRUE, !.out = r.resp]
    /\ UNCHANGED <<pdfs, nextPdf, files, history, folders, usedFolders, quizzes, nextQuiz, last>>

NextProcess == ProcessPdfContent

SpecProcess == InitProcess /\ [][NextProcess]_vars

\* ------------------------------------------------ the SavedQuiz model class
\* A Python dict is a function from its keys; an object is the record of its
\* attributes.  Times are clock readings; topic_focus None is TopicNone.
TopicNone == "None"

SavedQuizKeys ==
    {"user_id", "folder_id", "pdf_id", "pdf_name", "quiz_name", "quiz_type", "difficulty",
     "questions_data", "topic_focus", "created_at", "updated_at"}

\* data.get(key, default)
DictGet(data, key, default) == IF key \in DOMAIN data THEN data[key] ELSE default

\* SavedQuiz.__init__: both timestamps are read from the clock.
SavedQuiz_init(user_id, folder_id, pdf_id, pdf_name, quiz_name, quiz_type, difficulty, questions_data, topic_focus, utcnow) ==
    [user_id |-> user_id, folder_id |-> folder_id, pdf_id |-> pdf_id, pdf_name |-> pdf_name,
     quiz_name |-> quiz_name, quiz_type |-> quiz_type, difficulty |-> difficulty,
     questions_data |-> questions_data, topic_focus |-> topic_focus,
     created_at |-> utcnow, updated_at |-> utcnow]

to_dict(self) ==
    [k \in SavedQuizKeys |->
        CASE k = "user_id" -> self.user_id
          [] k = "folder_id" -> self.folder_id
          [] k = "pdf_id" -> self.pdf_id
          [] k = "pdf_name" -> self.pdf_name
          [] k = "quiz_name" -> self.quiz_name
          [] k = "quiz_type" -> self.quiz_type
          [] k = "difficulty" -> self.difficulty
          [] k = "questions_data" -> self.questions_data
          [] k = "topic_focus" -> self.topic_focus
          [] k = "created_at" -> self.created_at
          [] k = "updated_at" -> self.updated_at]

from_dict_clock_times(data, utcnow) ==
    SavedQuiz_init(data["user_id"], data["folder_id"], data["pdf_id"], data["pdf_name"],
                   data["quiz_name"], data["quiz_type"], data["difficulty"],
                   data["questions_data"], DictGet(data, "topic_focus", TopicNone), utcnow)

from_dict(data, utcnow) ==
    LET quiz == SavedQuiz_init(data["user_id"], data["folder_id"], data["pdf_id"],
                               data["pdf_name"], data["quiz_name"], data["quiz_type"],
                               data["difficulty"], data["questions_data"],
                               DictGet(data, "topic_focus", TopicNone), utcnow)
    IN  [quiz EXCEPT !.created_at = DictGet(data, "created_at", utcnow),
                     !.updated_at = DictGet(data, "updated_at", utcnow)]

\* ---------------------------------- specification: SavedQuiz round trip
PdfNames == {"a.pdf", "b.pdf"}
TopicFocuses == {TopicNone, "", "limits"}
QuestionsData ==
    {<<>>, <<[number |-> 1, correct_answer |-> "A"]>>,
     <<[number |-> 1, correct_answer |-> "A"], [number |-> 2, correct_answer |-> "D"]>>}

SavedQuizzes ==
    {[SavedQuiz_init(u, f, "p1", pn, qn, qt, "Easy", qd, tf, c) EXCEPT !.updated_at = m] :
        u \in Users, f \in FolderIds, pn \in PdfNames, qn \in QuizNames, qt \in QuizTypes,
        qd \in QuestionsData, tf \in TopicFocuses, c \in {1, 2}, m \in {2, 3}}

InitRoundTrip ==
    /\ InitStore
    /\ call \in {[op |-> "round_trip", done |-> FALSE, q |-> q, utcnow |-> now,
                  out |-> SavedQuiz_init("", "", "", "", "", "", "", <<>>, TopicNone, 0)] :
                 q \in SavedQuizzes, now \in {3, 4}}

FromDictToDict ==
    /\ call.op = "round_trip"
    /\ ~call.done
    /\ call' = [call EXCEPT !.done = TRUE, !.out = from_dict(to_dict(call.q), call.utcnow)]
    /\ UNCHANGED store_vars

NextRoundTrip == FromDictToDict

SpecRoundTrip == InitRoundTrip /\ [][NextRoundTrip]_vars

\* --------------------------------- specification: segmenting a whole quiz
\* Quiz texts whose segments carry headers of different styles, so that more
\* than one segmentation pattern can apply to the same text.
SplitBodies ==
    { McqBlock(<<"text", " ", "text", "?">>, UpperLetters, FALSE, "", <<>>, <<"Answer", ":", " ", "C">>),
      <<"text", " ", "text">>,
      <<>> }

RECURSIVE MixedContent(_, _, _)
MixedContent(styles, bodies, k) ==
    IF k > Len(bodies) THEN <<>>
    ELSE Segment(styles[k], k, bodies[k]) \o MixedContent(styles, bodies, k + 1)

MixedContents ==
    {pre \o MixedContent(styles, bodies, 1) :
        pre \in {<<>>, <<"text", NL, NL>>},
        styles \in [1..MaxBlocks -> HeaderStyles], bodies \in [1..MaxBlocks -> SplitBodies]}

InitSplit ==
    /\ InitStore
    /\ call \in {[op |-> "split_into_question_blocks", done |-> FALSE, content |-> c,
                  blocks |-> <<>>, out |-> ParseResult(FALSE, "", <<>>)] :
                 c \in MixedContents}

SplitIntoQuestionBlocks ==
    /\ call.op = "split_into_question_blocks"
    /\ ~call.done
    /\ call' = [call EXCEPT !.done = TRUE,
                            !.blocks = split_into_question_blocks(call.content),
                            !.out = parse_quiz_questions(call.content, "MCQ")]
    /\ UNCHANGED store_vars

NextSplit == SplitIntoQuestionBlocks

SpecSplit == InitSplit /\ [][NextSplit]_vars

\* ------------------------- specification: cues for the correct answer
\* A block with a question line and four option lines that may carry, each
\* pointing at a letter of its own: an answer label in one of four forms, a
\* line with an asterisk next to a letter, an option line ending in
\* '(correct)', and an option line ending in '(answer)'.
NoCue == "-"

LabelForms == {"Correct Answer:", "Answer:", "Correct:", "bold"}

LabelLine(form, L) ==
    CASE L = NoCue -> <<>>
      [] form = "Correct Answer:" -> <<"Correct", " ", "Answer", ":", " ", L>>
      [] form = "Answer:" -> <<"Answer", ":", " ", L>>
      [] form = "Correct:" -> <<"Correct", ":", " ", L>>
      [] OTHER -> <<"**", L, "**">>

StarLine(L) == IF L = NoCue THEN <<>> ELSE <<"text", " ", "*", L>>

CuedOptionLine(L, correctOpt, answerOpt) ==
    <<L, ")", " ", "text">>
    \o (IF L = correctOpt THEN <<" ", "(correct)">> ELSE <<>>)
    \o (IF L = answerOpt THEN <<" ", "(answer)">> ELSE <<>>)

CuedBlock(form, label, star, correctOpt, answerOpt) ==
    JoinLines(<<<<"text", " ", "text", "?">>>>
              \o [k \in 1..4 |-> CuedOptionLine(AnswerLetters[k], correctOpt, answerOpt)]
              \o <<StarLine(star), LabelLine(form, label)>>)

InitAnswer ==
    /\ InitStore
    /\ call \in {[op |-> "extract_correct_answer", done |-> FALSE, form |-> form,
                  label |-> label, star |-> star, correctOpt |-> correctOpt,
                  answerOpt |-> answerOpt,
                  block |-> CuedBlock(form, label, star, correctOpt, answerOpt),
                  answer |-> <<>>, out |-> <<>>] :
                 form \in LabelForms, label \in {NoCue, "C"}, star \in {NoCue, "D"},
                 correctOpt \in {NoCue, "A", "B"}, answerOpt \in {NoCue, "A", "D"}}

ExtractCorrectAnswer ==
    /\ call.op = "extract_correct_answer"
    /\ ~call.done
    /\ call' = [call EXCEPT !.done = TRUE,
                            !.answer = extract_correct_answer(call.block, BlockLines(call.block)),
                            !.out = parse_single_mcq_block(1, call.block)]
    /\ UNCHANGED store_vars

NextAnswer == ExtractCorrectAnswer

SpecAnswer == InitAnswer /\ [][NextAnswer]_vars

\* ------------------------- specification: classifying a spoken question
\* Utterances put together from at most one phrase of each pattern group,
\* after an opening word.
Openings == { <<>>, <<"please">>, <<"What">> }

InitClassify ==
    /\ InitStore
    /\ call \in {[op |-> "classify_voice_question", done |-> FALSE, direct |-> d,
                  concept |-> c, help |-> h, user_text |-> o \o d \o c \o h, out |-> ""] :
                 o \in Openings, d \in {<<>>} \cup direct_patterns,
                 c \in {<<>>} \cup concept_patterns, h \in {<<>>} \cup help_patterns}

ClassifyVoiceQuestion ==
    /\ call.op = "classify_voice_question"
    /\ ~call.done
    /\ call' = [call EXCEPT !.done = TRUE, !.out = classify_voice_question(call.user_text)]
    /\ UNCHANGED store_vars

NextClassify == ClassifyVoiceQuestion

SpecClassify == InitClassify /\ [][NextClassify]_vars

\* ------------------- specification: two sessions naming at the same time
\* Two sessions of user u1 each run one naming operation with the same new
\* name in the same scope (folder f1 for quizzes, the user for folders).  A
\* step is one call of the database; the collections have no unique index
\* (database.py:39-46 creates none for names), so an insert or update is
\* never refused.
Sessions == {1, 2}
RaceOps == {"save_quiz", "update_quiz_name", "create_folder", "update_folder_name"}
RaceQuizName == "n1"
RaceFolderName == "Chemistry"

RaceQuizzes ==
    { [id |-> 1, user_id |-> "u1", folder_id |-> "f1", pdf_id |-> 1, quiz_name |-> "n2"],
      [id |-> 2, user_id |-> "u1", folder_id |-> "f1", pdf_id |-> 1, quiz_name |-> "n3"] }

RaceFolders == { Folder("f1", "u1", "Maths"), Folder("f2", "u1", "Physics") }

\* The record a session renames, and the _id the database gives to a record
\* a session inserts.
RaceQuizOf(s) == s
RaceFolderOf(s) == IF s = 1 THEN "f1" ELSE "f2"
InsertedQuizId(s) == 2 + s
InsertedFolderId(s) == IF s = 1 THEN "f3" ELSE "f4"

InitRace ==
    /\ pdfs = {}
    /\ nextPdf = 0
    /\ files = {}
    /\ vectors = NoVectors
    /\ history = [pr \in Users \X PdfIds |-> "never"]
    /\ folders = RaceFolders
    /\ usedFolders = {r.id : r \in RaceFolders}
    /\ quizzes = RaceQuizzes
    /\ nextQuiz = Cardinality(RaceQuizzes)
    /\ last = NoLast
    /\ call \in {[op |-> "race",
                  session |-> [s \in Sessions |->
                                  [op |-> ops[s], pc |-> "find", folder_id |-> "",
                                   out |-> ServiceResponse(FALSE, "")]]] :
                 ops \in [Sessions -> RaceOps]}

race_unchanged == <<pdfs, nextPdf, files, vectors, history, last>>

\* A session at a step of an operation.
At(s, op, pc) == call.op = "race" /\ call.session[s].op = op /\ call.session[s].pc = pc

Returns(s, resp) == [call EXCEPT !.session[s].pc = "done", !.session[s].out = resp]
Goes(s, pc) == [call EXCEPT !.session[s].pc = pc]

\* save_quiz: collection.find_one by user, folder and name
SaveQuizFind(s) ==
    /\ At(s, "save_quiz", "find")
    /\ call' = IF \E q \in quizzes : q.user_id = "u1" /\ q.folder_id = "f1"
                                     /\ q.quiz_name = RaceQuizName
               THEN Returns(s, ServiceResponse(FALSE, MsgQuizExistsSave))
               ELSE Goes(s, "write")
    /\ UNCHANGED <<race_unchanged, folders, usedFolders, quizzes, nextQuiz>>

\* save_quiz: collection.insert_one
SaveQuizInsert(s) ==
    /\ At(s, "save_quiz", "write")
    /\ quizzes' = quizzes \cup {[id |-> InsertedQuizId(s), user_id |-> "u1", folder_id |-> "f1",
                                 pdf_id |-> 1, quiz_name |-> RaceQuizName]}
    /\ nextQuiz' = nextQuiz + 1
    /\ call' = Returns(s, ServiceResponse(TRUE, MsgQuizSaved))
    /\ UNCHANGED <<race_unchanged, folders, usedFolders>>

\* update_quiz_name: collection.find_one by _id and user
UpdateQuizNameFind(s) ==
    /\ At(s, "update_quiz_name", "find")
    /\ LET found == {q \in quizzes : q.id = RaceQuizOf(s) /\ q.user_id = "u1"}
       IN  call' = IF found = {} THEN Returns(s, ServiceResponse(FALSE, MsgQuizNotFound))
                   ELSE [Goes(s, "find_conflict") EXCEPT
                            !.session[s].folder_id = (CHOOSE q \in found : TRUE).folder_id]
    /\ UNCHANGED <<race_unchanged, folders, usedFolders, quizzes, nextQuiz>>

\* update_quiz_name: collection.find_one for another quiz of that name
UpdateQuizNameFindConflict(s) ==
    /\ At(s, "update_quiz_name", "find_conflict")
    /\ call' = IF \E q \in quizzes : /\ q.user_id = "u1"
                                     /\ q.folder_id = call.session[s].folder_id
                                     /\ q.quiz_name = RaceQuizName
                                     /\ q.id # RaceQuizOf(s)
               THEN Returns(s, ServiceResponse(FALSE, MsgQuizExistsRename))
               ELSE Goes(s, "write")
    /\ UNCHANGED <<race_unchanged, folders, usedFolders, quizzes, nextQuiz>>

\* update_quiz_name: collection.update_one
UpdateQuizNameUpdate(s) ==
    /\ At(s, "update_quiz_name", "write")
    /\ LET found == {q \in quizzes : q.id = RaceQuizOf(s) /\ q.user_id = "u1"}
           modified == {q \in found : q.quiz_name # RaceQuizName}
       IN  /\ quizzes' = (quizzes \ found) \cup {[q EXCEPT !.quiz_name = RaceQuizName] : q \in found}
           /\ call' = IF modified # {} THEN Returns(s, ServiceResponse(TRUE, MsgQuizRenamed))
                      ELSE Returns(s, ServiceResponse(FALSE, MsgQuizNoChange))
    /\ UNCHANGED <<race_unchanged, folders, usedFolders, nextQuiz>>

\* create_folder: collection.find_one by user and name
CreateFolderFind(s) ==
    /\ At(s, "create_folder", "find")
    /\ call' = IF \E r \in folders : r.user_id = "u1" /\ r.name = StripName(RaceFolderName)
               THEN Returns(s, ServiceResponse(FALSE, MsgFolderExists))
               ELSE Goes(s, "write")
    /\ UNCHANGED <<race_unchanged, folders, usedFolders, quizzes, nextQuiz>>

\* create_folder: collection.insert_one
CreateFolderInsert(s) ==
    /\ At(s, "create_folder", "write")
    /\ folders' = folders \cup {Folder(InsertedFolderId(s), "u1", StripName(RaceFolderName))}
    /\ usedFolders' = usedFolders \cup {InsertedFolderId(s)}
    /\ call' = Returns(s, ServiceResponse(TRUE, "Folder created successfully"))
    /\ UNCHANGED <<race_unchanged, quizzes, nextQuiz>>

\* update_folder_name: collection.find_one for another folder of that name
UpdateFolderNameFind(s) ==
    /\ At(s, "update_folder_name", "find")
    /\ call' = IF \E r \in folders : /\ r.user_id = "u1"
                                     /\ r.name = StripName(RaceFolderName)
                                     /\ r.id # RaceFolderOf(s)
               THEN Returns(s, ServiceResponse(FALSE, MsgFolderExists))
               ELSE Goes(s, "write")
    /\ UNCHANGED <<race_unchanged, folders, usedFolders, quizzes, nextQuiz>>

\* update_folder_name: collection.update_one
UpdateFolderNameUpdate(s) ==
    /\ At(s, "update_folder_name", "write")
    /\ LET found == {r \in folders : r.id = RaceFolderOf(s) /\ r.user_id = "u1"}
       IN  /\ folders' = (folders \ found)
                         \cup {[r EXCEPT !.name = StripName(RaceFolderName)] : r \in found}
           /\ call' = IF found = {} THEN Returns(s, ServiceResponse(FALSE, MsgFolderNotFound))
                      ELSE Returns(s, ServiceResponse(TRUE, "Folder name updated successfully"))
    /\ UNCHANGED <<race_unchanged, usedFolders, quizzes, nextQuiz>>

NextRace ==
    \E s \in Sessions :
        \/ SaveQuizFind(s) \/ SaveQuizInsert(s)
        \/ UpdateQuizNameFind(s) \/ UpdateQuizNameFindConflict(s) \/ UpdateQuizNameUpdate(s)
        \/ CreateFolderFind(s) \/ CreateFolderInsert(s)
        \/ UpdateFolderNameFind(s) \/ UpdateFolderNameUpdate(s)

SpecRace == InitRace /\ [][NextRace]_vars

\* ------------------------------------------- the checks before a vector search
\* What a service does before it searches the index of (u, p): the message
\* of the error it returns, or "search" when it goes on to call
\* vector_service.search_pdf_vectors.
IssuesSearch == "search"

\* chat_with_pdf that does not look at the processed flag.
chat_with_pdf_before_search_unprocessed_too(ps, modelOk, u, p) ==
    IF ~modelOk THEN MsgModelUnavailable
    ELSE IF get_pdf_by_id(ps, p, u) = {} THEN MsgPdfNotFound
    ELSE IssuesSearch

chat_with_pdf_before_search(ps, modelOk, u, p) ==
    IF ~modelOk THEN MsgModelUnavailable
    ELSE LET pdf == get_pdf_by_id(ps, p, u)
         IN  IF pdf = {} THEN MsgPdfNotFound
             ELSE IF \E r \in pdf : ~r.processed THEN MsgStillProcessing
             ELSE IssuesSearch

\* generate_quiz called with the default quiz type, number and difficulty.
generate_quiz_before_search(ps, modelOk, u, p) ==
    IF u = NoUserId THEN MsgUserRequired
    ELSE IF p = NoPdfId THEN MsgPdfRequired
    ELSE IF ~modelOk THEN MsgModelUnavailable
    ELSE LET pdf == get_pdf_by_id(ps, p, u)
         IN  IF pdf = {} THEN MsgPdfNotFound
             ELSE IF \E r \in pdf : ~r.processed THEN MsgStillProcessing
             ELSE IssuesSearch

search_pdf_content_before_search(ps, u, p) ==
    LET pdf == get_pdf_by_id(ps, p, u)
    IN  IF pdf = {} THEN MsgPdfNotFound
        ELSE IF \E r \in pdf : ~r.processed THEN MsgStillProcessing
        ELSE IssuesSearch

\* PDFService.search_pdf_content
search_pdf_content(ps, vecs, u, p, n_results) ==
    LET before == search_pdf_content_before_search(ps, u, p)
    IN  IF before # IssuesSearch THEN [success |-> FALSE, message |-> before, data |-> 0]
        ELSE search_pdf_vectors(vecs, u, p, n_results)

\* --------------------- specification: queries while a document is uploaded
\* The upload of document 1 by u1 goes through its steps (record inserted
\* with processed = false, index built or the upload undone, record marked)
\* while either user queries document 1 or 2 through the three services.
GateQueries == {"chat_with_pdf", "generate_quiz", "search_pdf_content"}
GateDocs == << <<Word("cell", 4, FALSE)>> >>
GateQuestion == <<Word("cell", 4, FALSE)>>

NoQuery ==
    [op |-> "gate", query |-> "none", user |-> "", pdf |-> 0, modelOk |-> FALSE,
     searched |-> FALSE, message |-> ""]

InitGate ==
    /\ InitStore
    /\ call = NoQuery

gate_unchanged == <<history, folders, usedFolders, quizzes, nextQuiz, last>>

\* upload_pdf, steps 1 to 3: the file is saved and the record inserted.
UploadInsertRecord ==
    /\ call.op = "gate"
    /\ nextPdf = 0
    /\ nextPdf' = 1
    /\ files' = files \cup {1}
    /\ pdfs' = pdfs \cup {PdfRecord(FALSE)}
    /\ UNCHANGED <<vectors, call, gate_unchanged>>

\* upload_pdf, step 4: the content is processed; a failure deletes the PDF.
UploadProcessContent ==
    /\ call.op = "gate"
    /\ PdfRecord(FALSE) \in pdfs
    /\ ~PathExists(vectors, "u1", 1)
    /\ \E extract \in {"ok", "error"}, embedOk \in BOOLEAN :
          LET pr == process_pdf_content(vectors, 1, "u1", 1, extract, Len(GateDocs), embedOk)
              d == delete_pdf([pdfs |-> pdfs, files |-> files, vectors |-> pr.vectors], 1,
                              "u1", "none")
          IN  IF pr.resp.success
              THEN vectors' = pr.vectors /\ UNCHANGED <<pdfs, files>>
              ELSE vectors' = d.vectors /\ pdfs' = d.pdfs /\ files' = d.files
    /\ UNCHANGED <<nextPdf, call, gate_unchanged>>

\* upload_pdf, step 5: the record is marked as processed.
UploadMarkProcessed ==
    /\ call.op = "gate"
    /\ PdfRecord(FALSE) \in pdfs
    /\ PathExists(vectors, "u1", 1)
    /\ pdfs' = (pdfs \ {PdfRecord(FALSE)}) \cup {PdfRecord(TRUE)}
    /\ UNCHANGED <<nextPdf, files, vectors, call, gate_unchanged>>

\* delete_pdf of the uploaded document by its owner.
DeleteUploadedPdf ==
    /\ call.op = "gate"
    /\ PdfRecord(TRUE) \in pdfs
    /\ LET d == delete_pdf([pdfs |-> pdfs, files |-> files, vectors |-> vectors], 1, "u1", "none")
       IN  vectors' = d.vectors /\ pdfs' = d.pdfs /\ files' = d.files
    /\ UNCHANGED <<nextPdf, call, gate_unchanged>>

Asked(query, u, p, modelOk, before, message) ==
    [op |-> "gate", query |-> query, user |-> u, pdf |-> p, modelOk |-> modelOk,
     searched |-> (before = IssuesSearch), message |-> message]

ChatWithPdfQuery ==
    /\ call.op = "gate"
    /\ \E u \in Users, p \in PdfIds, modelOk \in BOOLEAN :
          call' = Asked("chat_with_pdf", u, p, modelOk,
                        chat_with_pdf_before_search(pdfs, modelOk, u, p),
                        chat_with_pdf(pdfs, vectors, GateDocs, modelOk, u, p, GateQuestion,
                                      "Explain", "text").message)
    /\ UNCHANGED store_vars

GenerateQuizQuery ==
    /\ call.op = "gate"
    /\ \E u \in Users, p \in PdfIds, modelOk \in BOOLEAN :
          call' = Asked("generate_quiz", u, p, modelOk,
                        generate_quiz_before_search(pdfs, modelOk, u, p),
                        generate_quiz(pdfs, vectors, modelOk, u, p, Omitted, Omitted, Omitted,
                                      "text").message)
    /\ UNCHANGED store_vars

SearchPdfContent ==
    /\ call.op = "gate"
    /\ \E u \in Users, p \in PdfIds :
          call' = Asked("search_pdf_content", u, p, TRUE,
                        search_pdf_content_before_search(pdfs, u, p),
                        search_pdf_content(pdfs, vectors, u, p, 5).message)
    /\ UNCHANGED store_vars

NextGate ==
    \/ UploadInsertRecord \/ UploadProcessContent \/ UploadMarkProcessed \/ DeleteUploadedPdf
    \/ ChatWithPdfQuery \/ GenerateQuizQuery \/ SearchPdfContent

SpecGate == InitGate /\ [][NextGate]_vars

\* ------------------------------------------- specification: voice interface
\* One container key of the voice interface: its st.session_state keys, what
\* the last script run rendered, and what has been sent for transcription
\* and answered since the processed-hash set was last reset.
AudioHashes == {"h1", "h2"}
NoAudio == "None"
NoError == "None"
NoTime == 0 - 1
ErrorResetSeconds == 5
VoiceProcessingFailed == "Voice processing failed"
ProcessingOutcomes == {"complete", "transcription raised", "no speech", "response raised", "speech raised"}
VoiceButtons == {"none", "clear_voice", "test_voice", "exit_voice"}
MaxCount == 2

NoneProcessed == [h \in AudioHashes |-> 0]

Counted(count, h) == [count EXCEPT ![h] = IF @ < MaxCount THEN @ + 1 ELSE @]

\* The defaults of _init_voice_state. voice_error_time holds the seconds
\* passed since the stored time.time(), up to ErrorResetSeconds + 1; NoTime
\* is None.
VoiceStateDefaults ==
    [voice_processing |-> FALSE, voice_error |-> NoError, voice_error_time |-> NoTime,
     processed_audio_hashes |-> {}, last_audio_hash |-> NoAudio]

VoiceSession(present, keys, rendered, note, transcriptions, answers, exit) ==
    [op |-> "render_voice_chat", done |-> TRUE, present |-> present, keys |-> keys,
     recorder_rendered |-> rendered, note |-> note,
     transcriptions |-> transcriptions, answers |-> answers, exit |-> exit]

init_voice_state(S) ==
    IF S.present THEN S ELSE [S EXCEPT !.present = TRUE, !.keys = VoiceStateDefaults]

\* _process_recorded_audio_fixed whose handler leaves voice_processing set.
process_recorded_audio_fixed_keeps_processing(S, audio_hash, outcome) ==
    LET T == [S EXCEPT !.transcriptions = Counted(@, audio_hash)]
    IN  IF outcome \in {"transcription raised", "no speech"}
        THEN [T EXCEPT !.keys.voice_error = VoiceProcessingFailed, !.keys.voice_error_time = 0]
        ELSE IF outcome = "response raised"
        THEN [T EXCEPT !.answers = Counted(@, audio_hash),
                       !.keys.voice_error = VoiceProcessingFailed, !.keys.voice_error_time = 0]
        ELSE [T EXCEPT !.answers = Counted(@, audio_hash), !.keys.voice_processing = FALSE]

\* _process_recorded_audio_fixed: the transcription, the answer and the
\* speech; _speak_response handles its own exceptions, every other one sets
\* the error with its time; voice_processing is reset on both ways out.
process_recorded_audio_fixed(S, audio_hash, outcome) ==
    LET T == [S EXCEPT !.transcriptions = Counted(@, audio_hash)]
    IN  IF outcome \in {"transcription raised", "no speech"}
        THEN [T EXCEPT !.keys.voice_error = VoiceProcessingFailed, !.keys.voice_error_time = 0,
                       !.keys.voice_processing = FALSE]
        ELSE IF outcome = "response raised"
        THEN [T EXCEPT !.answers = Counted(@, audio_hash),
                       !.keys.voice_error = VoiceProcessingFailed, !.keys.voice_error_time = 0,
                       !.keys.voice_processing = FALSE]
        ELSE [T EXCEPT !.answers = Counted(@, audio_hash), !.keys.voice_processing = FALSE]

\* _render_audio_recorder_fixed marking a recording only once it was
\* processed without an error.
render_audio_recorder_fixed_marks_on_success(S, audio, outcome) ==
    LET R == [S EXCEPT !.recorder_rendered = TRUE]
    IN  IF audio = NoAudio THEN R
        ELSE IF audio \notin R.keys.processed_audio_hashes
        THEN LET Done == process_recorded_audio_fixed(
                             [R EXCEPT !.keys.voice_processing = TRUE,
                                       !.keys.last_audio_hash = audio, !.note = "new"],
                             audio, outcome)
             IN  IF Done.keys.voice_error = NoError
                 THEN [Done EXCEPT !.keys.processed_audio_hashes = @ \cup {audio}]
                 ELSE Done
        ELSE [R EXCEPT !.note = IF R.keys.last_audio_hash = audio
                                THEN "already processed" ELSE "processed earlier"]

\* _render_audio_recorder_fixed: audio is the MD5 hash of what the recorder
\* returned, NoAudio for nothing.
render_audio_recorder_fixed(S, audio, outcome) ==
    LET R == [S EXCEPT !.recorder_rendered = TRUE]
    IN  IF audio = NoAudio THEN R
        ELSE IF audio \notin R.keys.processed_audio_hashes
        THEN process_recorded_audio_fixed(
                 [R EXCEPT !.keys.voice_processing = TRUE,
                           !.keys.processed_audio_hashes = @ \cup {audio},
                           !.keys.last_audio_hash = audio, !.note = "new"],
                 audio, outcome)
        ELSE [R EXCEPT !.note = IF R.keys.last_audio_hash = audio
                                THEN "already processed" ELSE "processed earlier"]

\* _cleanup_voice_state deletes the five keys.
cleanup_voice_state(S) ==
    [S EXCEPT !.present = FALSE, !.keys = VoiceStateDefaults,
              !.transcriptions = NoneProcessed, !.answers = NoneProcessed]

\* _render_control_buttons: Clear Chat empties the processed hashes and
\* re-runs, Exit Voice cleans up and returns True.
render_control_buttons(S, button) ==
    CASE button = "clear_voice" ->
            [S EXCEPT !.keys.processed_audio_hashes = {},
                      !.transcriptions = NoneProcessed, !.answers = NoneProcessed]
      [] button = "exit_voice" -> [cleanup_voice_state(S) EXCEPT !.exit = TRUE]
      [] OTHER -> S

\* _render_voice_interface: an error older than ErrorResetSeconds is cleared
\* and the script re-run at once; otherwise the recorder is rendered unless
\* processing or an error is set, then the buttons.
render_voice_interface(S, audio, outcome, button) ==
    IF S.keys.voice_error_time # NoTime /\ S.keys.voice_error_time > ErrorResetSeconds
    THEN [S EXCEPT !.keys.voice_error = NoError, !.keys.voice_error_time = NoTime]
    ELSE render_control_buttons(
             IF ~S.keys.voice_processing /\ S.keys.voice_error = NoError
             THEN render_audio_recorder_fixed(S, audio, outcome)
             ELSE S,
             button)

\* render_voice_chat of an available interface: one script run.
render_voice_chat(S, audio, outcome, button) ==
    render_voice_interface(
        [init_voice_state(S) EXCEPT !.op = "render_voice_chat", !.recorder_rendered = FALSE,
                                    !.note = "none", !.exit = FALSE],
        audio, outcome, button)

InitRender ==
    /\ InitStore
    /\ call = [VoiceSession(FALSE, VoiceStateDefaults, FALSE, "none",
                            NoneProcessed, NoneProcessed, FALSE)
                  EXCEPT !.op = "VoiceInterface"]

\* A script run with nothing pressed.
RenderVoiceChat ==
    /\ \E audio \in AudioHashes \cup {NoAudio}, outcome \in ProcessingOutcomes :
          call' = render_voice_chat(call, audio, outcome, "none")
    /\ UNCHANGED store_vars

\* A script run started by one of the three buttons.
PressVoiceButton ==
    /\ \E audio \in AudioHashes \cup {NoAudio}, outcome \in ProcessingOutcomes,
          button \in VoiceButtons \ {"none"} :
          call' = render_voice_chat(call, audio, outcome, button)
    /\ UNCHANGED store_vars

\* A second passes while an error is shown.
SecondPasses ==
    /\ call.keys.voice_error_time # NoTime
    /\ call.keys.voice_error_time <= ErrorResetSeconds
    /\ call' = [call EXCEPT !.op = "time", !.keys.voice_error_time = @ + 1]
    /\ UNCHANGED store_vars

NextRender == RenderVoiceChat \/ PressVoiceButton \/ SecondPasses

SpecRender == InitRender /\ [][NextRender]_vars

\* Script runs keep happening and time advances.
SpecRenderFair == SpecRender /\ WF_vars(RenderVoiceChat) /\ WF_vars(SecondPasses)

\* =================================================================== claims

\* C1: after every completed upload_pdf or delete_pdf call, also one ended by
\* an exception of the database, for every (user, document) pair the index
\* directory exists iff a PDF record of that document has processed = true.
C1_IndexIffProcessed ==
    \A u \in Users, p \in PdfIds :
        PathExists(vectors, u, p) <=>
            (\E r \in pdfs : r.id = p /\ r.user_id = u /\ r.processed)

\* C4: once a document or a folder has been deleted, by any of the deletion
\* paths of the application, no saved quiz refers to it any more.
C4_CascadeToSavedQuizzes ==
    [][ /\ \A p \in PdfIds :
             ((\E r \in pdfs : r.id = p) /\ ~(\E r \in pdfs' : r.id = p))
                 => (\A q \in quizzes' : q.pdf_id # p)
        /\ \A f \in FolderIds :
             ((\E r \in folders : r.id = f) /\ ~(\E r \in folders' : r.id = f))
                 => (\A q \in quizzes' : q.folder_id # f) ]_vars

C3_DeleteIdempotent ==
    /\ \A u \in Users, p \in PdfIds :
         LET once == delete_pdf_vectors(vectors, u, p)
             twice == delete_pdf_vectors(once.vectors, u, p)
         IN  /\ twice.resp = ServiceResponse(TRUE, MsgVectorsDeleted)
             /\ twice.vectors = once.vectors
    /\ (last.op = "delete_pdf_vectors" /\ last.log = "FAISS vectors not found")
           => (last.success /\ ~PathExists(vectors, last.user, last.pdf))

C3_DeleteOfMissingIndex ==
    /\ last.op = "delete_pdf_vectors"
    /\ last.log = "FAISS vectors not found"
    /\ history[<<last.user, last.pdf>>] = "deleted"
    /\ vectors # NoVectors

\* C5: no two saved quizzes of one user and folder share a name, and a save
\* or rename that would make two share one fails and changes nothing.
NamesUnique(qs) ==
    \A a \in qs, b \in qs :
        (a.user_id = b.user_id /\ a.folder_id = b.folder_id /\ a.quiz_name = b.quiz_name)
            => a.id = b.id

C5_WouldDuplicate ==
    \/ /\ last'.op = "save_quiz"
       /\ \E q \in quizzes : /\ q.user_id = last'.user
                             /\ q.folder_id = last'.folder
                             /\ q.quiz_name = last'.name
    \/ /\ last'.op = "update_quiz_name"
       /\ \E q \in quizzes, o \in quizzes :
            /\ q.id = last'.quiz /\ q.user_id = last'.user
            /\ o.id # q.id /\ o.user_id = q.user_id /\ o.folder_id = q.folder_id
            /\ o.quiz_name = last'.name

C5_QuizNameUnique ==
    /\ [](NamesUnique(quizzes))
    /\ [][C5_WouldDuplicate => (~last'.success /\ quizzes' = quizzes)]_vars

C5_DuplicateRejected ==
    /\ last.op = "update_quiz_name"
    /\ last.message = MsgQuizExistsRename
    /\ Cardinality(quizzes) = 2

\* C6: update_quiz_name, delete_quiz and get_quiz_by_id called by a user who
\* does not own the quiz answer "Quiz not found" and change no stored quiz.
C6_ByStranger ==
    /\ last'.op \in {"update_quiz_name", "delete_quiz", "get_quiz_by_id"}
    /\ \E q \in quizzes : q.id = last'.quiz /\ q.user_id # last'.user

C6_OwnerOnly ==
    [][C6_ByStranger => /\ ~last'.success
                        /\ last'.message = MsgQuizNotFound
                        /\ quizzes' = quizzes]_vars

C6_StrangerRefused ==
    /\ last.op = "delete_quiz"
    /\ last.message = MsgQuizNotFound
    /\ \E q \in quizzes : q.id = last.quiz /\ q.user_id # last.user


\* C7: in chat_with_pdf, whenever the retrieved context is judged weak the
\* call succeeds with the canned response and context_used = 0, and the
\* language model was not invoked.
C7_WeakContextCanned ==
    (/\ call.op = "chat_with_pdf"
     /\ call.done
     /\ call.out.retrieved
     /\ is_context_too_weak(call.question, call.out.context))
    => (/\ call.out.success
        /\ call.out.response = <<CannedResponse>>
        /\ call.out.context_used = 0
        /\ ~call.out.llm_invoked)

\* A chat whose retrieved context of 50 characters or more was judged weak.
C7_WeakContextAnswered ==
    /\ call.op = "chat_with_pdf"
    /\ call.done
    /\ call.out.retrieved
    /\ TextLen(call.out.context) >= WeakMinLen
    /\ is_context_too_weak(call.question, call.out.context)
    /\ call.out.response = <<CannedResponse>>

\* No lower-cased question word outside the stop-word list is a lower-cased
\* context word.
NoMeaningfulOverlap(question, context) ==
    ~\E i \in 1..Len(question), j \in 1..Len(context) :
        /\ ~question[i].ws
        /\ ~context[j].ws
        /\ question[i].base \notin common_words
        /\ question[i].base = context[j].base

C9_ParametersInDomain ==
    (call.op = "generate_quiz" /\ call.done)
    => /\ call.out.success => call.out.prompted
       /\ call.out.prompted =>
            /\ call.out.num_questions \in 1..10
            /\ call.out.difficulty \in {"Easy", "Medium", "Hard"}
            /\ call.out.type \in {"MCQ", "Open-ended"}
            /\ (call.num_questions.t = "int" /\ call.num_questions.n < 1)
                    => call.out.num_questions = 1
            /\ (call.num_questions.t = "int" /\ call.num_questions.n > 10)
                    => call.out.num_questions = 10

\* A successful generation asked for 11 questions and given 10.
C9_ElevenClampedToTen ==
    /\ call.op = "generate_quiz"
    /\ call.done
    /\ call.out.success
    /\ call.num_questions = PyInt(11)
    /\ call.out.num_questions = 10

\* The request would succeed with valid parameters: the ids are given, the
\* model is loaded, the PDF is the user's and processed, its index exists and
\* the model answers.
C10_RequestServable ==
    /\ call.user # NoUserId
    /\ call.pdf # NoPdfId
    /\ call.modelOk
    /\ \E r \in pdfs : r.id = call.pdf /\ r.user_id = call.user /\ r.processed
    /\ PathExists(vectors, call.user, call.pdf)
    /\ call.llm = "text"

\* A num_questions that is missing or is not a number.
C10_NumQuestionsInvalid(x) ==
    \/ x.t \in {"none", "omitted", "list"}
    \/ (x.t = "float" /\ x.s # "finite")
    \/ (x.t = "str" /\ x.s \in {"inf", "nan", "abc", ""})

\* C10: a missing or invalid num_questions, difficulty or quiz_type never
\* makes generate_quiz return an error; the parameter falls back to 3,
\* Medium or MCQ.
C10_InvalidParametersFallBack ==
    (call.op = "generate_quiz" /\ call.done /\ C10_RequestServable)
    => /\ call.out.success
       /\ C10_NumQuestionsInvalid(call.num_questions) => call.out.num_questions = 3
       /\ (call.difficulty \notin {PyStr("Easy"), PyStr("Medium"), PyStr("Hard")})
            => call.out.difficulty = "Medium"
       /\ (call.quiz_type \notin {PyStr("MCQ"), PyStr("Open-ended")})
            => call.out.type = "MCQ"

\* ------------------------------------------------------------------- C11
\* C11: every question parsed from a block has an options map with exactly
\* the keys A, B, C, D, in which a letter found in the block keeps its text
\* and a missing letter gets the placeholder, and its correct_answer is one
\* of those keys.
C11_QuestionWellFormed ==
    (call.op = "parse_single_mcq_block" /\ call.done /\ call.out # <<>>) =>
        LET q == call.out[1]
        IN  /\ DOMAIN q.options = UpperLetters
            /\ \A L \in UpperLetters :
                  q.options[L] = IF L \in call.present
                                 THEN OptionText(L, call.marked, call.mark)
                                 ELSE Placeholder(L)
            /\ q.correct_answer \in DOMAIN q.options

\* A block with only the options A and B was parsed into a question.
C11_TwoOptionsTwoPlaceholders ==
    /\ call.op = "parse_single_mcq_block"
    /\ call.done
    /\ call.out # <<>>
    /\ call.present = {"A", "B"}
    /\ call.out[1].options["A"] = <<"text">>
    /\ call.out[1].options["C"] = Placeholder("C")
    /\ call.out[1].options["D"] = Placeholder("D")

\* ------------------------------------------------------------------- C12
\* C12: when no strategy finds a letter in the block, or the letter found is
\* not a letter of an option present in the block, the question is kept with
\* correct_answer 'A'.
C12_DefaultsToA ==
    (/\ call.op = "parse_single_mcq_block"
     /\ call.done
     /\ extract_question_text(BlockLines(call.block)) # <<>>
     /\ LET found == extract_correct_answer(call.block, BlockLines(call.block))
        IN  found = <<>> \/ found[1] \notin call.present)
    => (call.out # <<>> /\ call.out[1].correct_answer = "A")

\* ------------------------------------------------------------------- C13
\* A recognised block that has question text.
HasQuestionText(block) == extract_question_text(BlockLines(block)) # <<>>

C14_Matching ==
    {i \in 1..Len(call.questions) :
        /\ i \in DOMAIN call.user_answers
        /\ call.user_answers[i] = call.questions[i].correct_answer}

\* C14 as stated: for every answer map over the question ordinals the call
\* reports total_questions = the number of questions and correct_count = the
\* number of questions whose submitted letter equals correct_answer.
C14_UnansweredCountAsIncorrect ==
    (/\ call.op = "check_mcq_answers" /\ call.done
     /\ DOMAIN call.user_answers \subseteq 1..Len(call.questions))
    => /\ call.out.success
       /\ call.out.data.total_questions = Len(call.questions)
       /\ call.out.data.correct_count = Cardinality(C14_Matching)

\* C14 (amended): for every answer map over the question ordinals that
\* answers at least one question, the call reports total_questions = the
\* number of questions and correct_count = the number of questions whose
\* submitted letter equals correct_answer.
C14_UnansweredCountAsIncorrectOnceAnswered ==
    (/\ call.op = "check_mcq_answers" /\ call.done
     /\ DOMAIN call.user_answers # {}
     /\ DOMAIN call.user_answers \subseteq 1..Len(call.questions))
    => /\ call.out.success
       /\ call.out.data.total_questions = Len(call.questions)
       /\ call.out.data.correct_count = Cardinality(C14_Matching)

\* One of three questions was answered, correctly, and the score is 1 of 3.
C14_OneOfThreeAnswered ==
    /\ call.op = "check_mcq_answers" /\ call.done
    /\ Len(call.questions) = 3
    /\ Cardinality(DOMAIN call.user_answers) = 1
    /\ call.out.success
    /\ call.out.data.total_questions = 3
    /\ call.out.data.correct_count = 1

\* ------------------------------------------------------------------- C15
\* The band the thresholds give to correct of total.
C15_BandByThresholds(feedback, correct, total) ==
    /\ 100 * correct >= 90 * total => feedback = "Excellent work!"
    /\ (100 * correct < 90 * total /\ 100 * correct >= 80 * total) => feedback = "Great job!"
    /\ (100 * correct < 80 * total /\ 100 * correct >= 70 * total) => feedback = "Good effort!"
    /\ (100 * correct < 70 * total /\ 100 * correct >= 60 * total) => feedback = "Not bad!"
    /\ 100 * correct < 60 * total => feedback = "Keep studying!"

\* C15 as stated: the band follows the thresholds on correct/total, and it
\* is the band of the percentage reported in score_data.
C15_BandAgreesWithPercentage ==
    (call.op = "check_mcq_answers" /\ call.done /\ call.out.success) =>
        /\ C15_BandByThresholds(call.out.data.feedback, call.out.data.correct_count,
                                call.out.data.total_questions)
        /\ C15_BandByThresholds(call.out.data.feedback, call.out.data.percentage, 1000)

\* C15 (amended): the band follows the thresholds on correct/total; the
\* percentage reported is correct/total rounded to one decimal (3 of 5 gives
\* 60.0 and 'Not bad!'), and the band is the band of that percentage unless
\* rounding lifted it onto a threshold that correct/total is below.
C15_BandAgreesUnlessRoundedOntoThreshold ==
    (call.op = "check_mcq_answers" /\ call.done /\ call.out.success) =>
        LET d == call.out.data
        IN  /\ C15_BandByThresholds(d.feedback, d.correct_count, d.total_questions)
            /\ 2 * (1000 * d.correct_count - d.percentage * d.total_questions) <= d.total_questions
            /\ 2 * (d.percentage * d.total_questions - 1000 * d.correct_count) <= d.total_questions
            /\ \/ C15_BandByThresholds(d.feedback, d.percentage, 1000)
               \/ /\ d.percentage \in {600, 700, 800, 900}
                  /\ 1000 * d.correct_count < d.percentage * d.total_questions
            /\ (d.correct_count = 3 /\ d.total_questions = 5) =>
                  (d.percentage = 600 /\ d.feedback = "Not bad!")

\* 142 of 203 is reported as 70.0 with the band below 70.
C15_SeventyReportedAsNotBad ==
    /\ call.op = "check_mcq_answers" /\ call.done /\ call.out.success
    /\ call.out.data.correct_count = 142
    /\ call.out.data.total_questions = 203
    /\ call.out.data.percentage = 700
    /\ call.out.data.feedback = "Not bad!"

\* ------------------------------------------------------------------- C16
\* The utterance of the call matches a direct-answer pattern of its path.
C16_DirectAnswerRequest ==
    LET u == LowerWords(call.user_text)
    IN  CASE call.op = "get_voice_response" -> SearchAny(u, voice_direct_answer_patterns)
          [] call.op = "handle_voice_message_enhanced" -> ContainsAnyPhrase(u, direct_patterns)
          [] call.op = "handle_quiz_chat_message" -> SearchAny(u, chat_direct_answer_patterns)
          [] OTHER -> FALSE

C17_Raised ==
    {i \in call.faults : call.out.at = 0 \/ i <= call.out.at}

C17_Tolerated ==
    {<<"delete_pdf", "delete_pdf_file">>, <<"delete_pdf", "delete_pdf_vectors">>,
     <<"upload_pdf", "get_file_size">>}

C18_TransportFailed(request) ==
    request.outcome \in TransportFailures \/ request.outcome = "error"

\* C18: no call to the speech service raises; a transcription or synthesis
\* whose request times out, cannot connect or returns a status other than
\* 200 returns an error response, and an availability check whose request
\* does so returns false.
C18_TransportFailuresBecomeErrors ==
    (call.op \in VoiceOps) =>
        /\ ~call.out.raised
        /\ (/\ call.op \in {"transcribe_audio_via_voicemode", "synthesize_speech_via_voicemode"}
            /\ (C18_TransportFailed(call.post) \/ C18_TransportFailed(call.health)))
           => ~call.out.success
        /\ (call.op = "check_voice_service_available" /\ C18_TransportFailed(call.health))
           => ~call.out.success

\* A transcription request timed out and the call returned the timeout error.
C18_TranscriptionTimedOut ==
    /\ call.op = "transcribe_audio_via_voicemode"
    /\ call.post.outcome = "timeout"
    /\ ~call.out.raised
    /\ ~call.out.success
    /\ call.out.message = "Voice service timeout - try shorter audio"

\* ------------------------------------------------------------------- C19
\* The name of the call is empty or whitespace only.
C19_BlankName == StripName(call.name) = ""

\* The name of the call is already used in its scope: by a folder of the
\* user, or by a quiz of the user in the folder.
C19_NameInUse ==
    CASE call.op = "create_folder" ->
            \E r \in call.folders_before :
                r.user_id = call.user /\ r.name = StripName(call.name)
      [] call.op = "update_folder_name" ->
            \E r \in call.folders_before :
                r.user_id = call.user /\ r.name = StripName(call.name) /\ r.id # call.folder
      [] call.op = "save_quiz" ->
            \E q \in call.quizzes_before :
                q.user_id = call.user /\ q.folder_id = call.folder /\ q.quiz_name = call.name
      [] call.op = "update_quiz_name" ->
            \E t \in call.quizzes_before, q \in call.quizzes_before :
                /\ t.id = call.quiz /\ t.user_id = call.user
                /\ q.user_id = call.user /\ q.folder_id = t.folder_id
                /\ q.quiz_name = call.name /\ q.id # call.quiz
      [] OTHER -> FALSE

\* C19: create_folder, update_folder_name, save_quiz and update_quiz_name
\* each answer an empty or whitespace-only name, and a name already used in
\* the same scope, with an error response and leave the stored folders and
\* quizzes as they were.
C19_NamesValidatedBeforeWrite ==
    (call.op \in NameOps /\ call.done /\ (C19_BlankName \/ C19_NameInUse))
    => /\ ~call.out.success
       /\ folders = call.folders_before
       /\ quizzes = call.quizzes_before

\* ------------------------------------------------------------------- C20
\* C20: processing an upload rejects the file for its size exactly when the
\* file is larger than 100MB, and then before any text is extracted (the
\* messages of extraction are those of a file no larger than that).
C20_RejectedForSizeOver100MB ==
    (call.op = "process_pdf_content" /\ call.done) =>
        /\ call.out.message \in {MsgTooLarge50, MsgTooLarge100} <=> call.size > 100
        /\ call.out.message \in {MsgExtractError, MsgExtractEmpty} => call.size <= 100

\* C21: SavedQuiz.from_dict(q.to_dict()) has the same user_id, folder_id,
\* pdf_id, pdf_name, quiz_name, quiz_type, difficulty, questions_data,
\* topic_focus (None included), created_at and updated_at as q, whenever the
\* conversion is made.
C21_RoundTrip ==
    (call.op = "round_trip" /\ call.done) =>
        \A k \in SavedQuizKeys : to_dict(call.out)[k] = to_dict(call.q)[k]

\* C21 witness: a quiz without topic focus, created and updated at different
\* times, has been converted at a later clock reading.
C21_NoTopicConvertedLater ==
    /\ call.op = "round_trip" /\ call.done
    /\ call.q.topic_focus = TopicNone
    /\ call.q.created_at < call.q.updated_at
    /\ call.q.updated_at < call.utcnow
    /\ Len(call.q.questions_data) = 2
    /\ call.out.topic_focus = TopicNone

\* The blocks each segmentation strategy finds in a text on its own.
C22_Strategy(content, k) ==
    CASE k = 1 -> FindBlocks(content, 1, "question")
      [] k = 2 -> FindBlocks(content, 1, "number")
      [] OTHER -> LET raw == SplitParagraphs(content)
                  IN  SelectSeq([i \in 1..Len(raw) |-> StripAtoms(raw[i])],
                                LAMBDA b : b # <<>> /\ LooksLikeMcq(b))

C23_FirstCue ==
    IF call.label # NoCue THEN <<call.label>>
    ELSE IF call.star # NoCue THEN <<call.star>>
    ELSE IF call.correctOpt # NoCue THEN <<call.correctOpt>>
    ELSE IF call.answerOpt # NoCue THEN <<call.answerOpt>>
    ELSE <<>>

\* C23: correct-answer extraction returns the letter of the first of its
\* strategies that succeeds (answer label, asterisk next to a letter, marked
\* option line, '(answer)' near an option), and a block with four options and
\* the line 'Correct Answer: C' is parsed with correct_answer 'C' whatever
\* other markers it carries.
C23_FirstStrategyDecides ==
    (call.op = "extract_correct_answer" /\ call.done) =>
        /\ call.answer = C23_FirstCue
        /\ (call.label = "C" /\ call.form = "Correct Answer:")
              => (call.out # <<>> /\ call.out[1].correct_answer = "C")

\* C23 witness: a block labelled 'Correct Answer: C' that also carries an
\* asterisk next to D, '(correct)' on option B and '(answer)' on option A was
\* parsed.
C23_LabelBeatsAllMarkers ==
    /\ call.op = "extract_correct_answer" /\ call.done
    /\ call.form = "Correct Answer:" /\ call.label = "C"
    /\ call.star = "D" /\ call.correctOpt = "B" /\ call.answerOpt = "A"
    /\ call.out # <<>>
    /\ call.out[1].correct_answer = "C"

\* C24: a spoken question is classified by the first pattern group, in the
\* order direct-answer, concept-explanation, help-request, of which it holds
\* a phrase, and as 'general' when it holds none; so one that holds a
\* direct-answer phrase is a direct_answer_request whatever else it holds.
C24_FirstGroupClassifies ==
    (call.op = "classify_voice_question" /\ call.done) =>
        call.out = IF call.direct # <<>> THEN "direct_answer_request"
                   ELSE IF call.concept # <<>> THEN "concept_explanation"
                   ELSE IF call.help # <<>> THEN "help_request"
                   ELSE "general"

\* C24 witness: an utterance holding a phrase of each of the three groups was
\* classified as a direct-answer request.
C24_DirectBeatsConceptAndHelp ==
    /\ call.op = "classify_voice_question" /\ call.done
    /\ call.direct = <<"which", "option">>
    /\ call.concept = <<"explain">>
    /\ call.help = <<"hint">>
    /\ call.out = "direct_answer_request"

\* The two sessions name records of the same collection.
C25_SameScope ==
    \/ \A s \in Sessions : call.session[s].op \in {"save_quiz", "update_quiz_name"}
    \/ \A s \in Sessions : call.session[s].op \in {"create_folder", "update_folder_name"}

\* C25: when two sessions run save_quiz / update_quiz_name (or create_folder
\* / update_folder_name) at the same time with the same name in the same
\* scope, then under every interleaving of their database calls no two
\* records of the scope bear the same name and at most one of the two
\* operations succeeds.
C25_UniqueUnderInterleaving ==
    call.op = "race" =>
        /\ \A q1, q2 \in quizzes :
              (q1.user_id = q2.user_id /\ q1.folder_id = q2.folder_id
               /\ q1.quiz_name = q2.quiz_name) => q1.id = q2.id
        /\ \A r1, r2 \in folders :
              (r1.user_id = r2.user_id /\ r1.name = r2.name) => r1.id = r2.id
        /\ C25_SameScope => \E s \in Sessions : ~call.session[s].out.success

\* The document p has a record of user u with processed = true.
C26_Processed(u, p) == \E r \in pdfs : r.id = p /\ r.user_id = u /\ r.processed

C27_FailedUploadLeavesNothing ==
    (last.op = "upload_pdf" /\ ~last.success /\ last.pdf <= nextPdf) =>
        /\ \A r \in pdfs : r.id # last.pdf
        /\ last.pdf \notin files
        /\ \A u \in Users : ~PathExists(vectors, u, last.pdf)

\* ------------------------------------------------------------------- C28
\* C28: the first call that checks the speech service caches its answer,
\* which is true only if its health request returned HTTP 200 with the
\* models loaded; while a value is cached, every call other than
\* clear_voice_cache keeps it, issues no health request, and
\* check_voice_service_available returns it, whatever the service would
\* have answered.
C28_AvailabilitySticky ==
    [][call'.op # "clear_voice_cache" =>
          /\ call'.cached # "None"
          /\ (call.cached = "None" /\ call'.cached = "True")
                => call'.health = Http("loaded", 200)
          /\ call.cached # "None" =>
                /\ call'.cached = call.cached
                /\ call'.health = NoRequest
                /\ call'.op = "check_voice_service_available"
                      => call'.out.success = (call.cached = "True")]_vars

\* A check answered "unavailable" from the cache, without a request.
C28_AnsweredFromCache ==
    /\ call.op = "check_voice_service_available"
    /\ call.cached = "False"
    /\ call.health = NoRequest

\* ------------------------------------------------------------------- C29
\* C29: since the processed hashes of the container key were last reset (by
\* Clear Chat or Exit Voice), no recording has been sent for transcription
\* or answered more than once, whatever the number of script runs and
\* whether its processing failed or not, and every recording that was sent
\* is among the processed hashes.
C29_ProcessedAtMostOnce ==
    \A h \in AudioHashes :
        /\ call.transcriptions[h] <= 1
        /\ call.answers[h] <= 1
        /\ call.transcriptions[h] = 1 => h \in call.keys.processed_audio_hashes

\* The recorder returned again a recording whose transcription had failed,
\* and the run reported it as already processed.
C29_FailedRecordingNotRetried ==
    /\ call.note = "already processed"
    /\ call.keys.last_audio_hash # NoAudio
    /\ call.transcriptions[call.keys.last_audio_hash] = 1
    /\ call.answers[call.keys.last_audio_hash] = 0

====
